---- MODULE Spec2Model ----
(***************************************************************************)
(* Model of the memory-bridge core of neo-console:                         *)
(*   conversation_cortex_v2.py  (ingest, dream cycle, recall)              *)
(*   groq_compiler.py           (analyze_query, rerank_memories)           *)
(*   memome_codex.py            (parse_dna_sequence)                       *)
(*   context_persistence.py     (encode_context_to_dna)                    *)
(*   weaver_engine.py           (reproduce)                                *)
(* calls holds the threads that are inside a call (interleaved runs).      *)
(* Energies are held in hundredths (1.0 = 100, 0.05 = 5, 0.1 = 10,         *)
(* 0.03 = 3).  Text is a sequence of one-character strings.                *)
(***************************************************************************)
EXTENDS Integers, Sequences, FiniteSets, TLC

VARIABLES store, dream_count, ingests, events, calls, ret

vars == <<store, dream_count, ingests, events, calls, ret>>

(***************************************************************************)
(* Bounds of the model.                                                    *)
(***************************************************************************)
MaxDreams == 34
MaxIngests == 4

(***************************************************************************)
(* Program constants.                                                      *)
(***************************************************************************)
InitialEnergy == 100
EnergyCeiling == 100
EnergyFloor == 5
DreamBoost == 10
DreamDecay == 3
TopN == 2
IdModulus == 100000

(***************************************************************************)
(* Calls in flight.  calls[p] is the position of thread p inside           *)
(* dream_cycle or ingest_turn; a thread outside both is idle.  The serial  *)
(* specifications run each call in one step and leave every thread idle.   *)
(***************************************************************************)
Dreamers == {"dream1", "dream2"}

Ingesters == {"ingest1"}

NoCalls == [p \in Dreamers \cup Ingesters |-> [pc |-> "idle"]]

(***************************************************************************)
(* Generic helpers on sequences.                                           *)
(***************************************************************************)
Min2(a, b) == IF a <= b THEN a ELSE b

Max2(a, b) == IF a >= b THEN a ELSE b

Abs(x) == IF x < 0 THEN -x ELSE x

Take(s, n) == SubSeq(s, 1, Min2(n, Len(s)))

Range(s) == {s[i] : i \in DOMAIN s}

(***************************************************************************)
(* The turns that can be ingested.  session is <<first 8 characters,       *)
(* rest>>; text stands for the Q+A text and is what gets embedded.         *)
(***************************************************************************)
Turns ==
  { [session |-> <<"sessAAAA", "x">>, turn_number |-> 1, timestamp |-> 1, text |-> 0],
    [session |-> <<"sessAAAA", "x">>, turn_number |-> 2, timestamp |-> 2, text |-> 1],
    [session |-> <<"sessAAAA", "y">>, turn_number |-> 1, timestamp |-> 100001, text |-> 2],
    [session |-> <<"sessBBBB", "x">>, turn_number |-> 1, timestamp |-> 700000, text |-> 1] }

\* spore_id = f"v2_{session_id[:8]}_{turn_number}_{int(timestamp) % 100000}"
SporeId(turn) == <<turn.session[1], turn.turn_number, turn.timestamp % IdModulus>>

\* embed_passage / embed_query: the embedding of a text
Embed(text) == text

\* distance the store ranks by
Distance(e1, e2) == Abs(e1 - e2)

Ids(st) == {st[i].id : i \in DOMAIN st}

IndexOf(st, id) == CHOOSE i \in DOMAIN st : st[i].id = id

(***************************************************************************)
(* collection.query: the records that satisfy the filter, nearest first,   *)
(* ties in insertion order, cut to n_results.  Returns indices into st.    *)
(***************************************************************************)
Closer(st, emb, i, j) ==
  \/ Distance(st[i].emb, emb) < Distance(st[j].emb, emb)
  \/ Distance(st[i].emb, emb) = Distance(st[j].emb, emb) /\ i < j

RankOf(st, emb, matching, i) == Cardinality({j \in matching : Closer(st, emb, j, i)}) + 1

Ranked(st, emb, matching) ==
  CHOOSE r \in { [k \in 1..Cardinality(matching) |-> CHOOSE i \in matching : rank[i] = k] :
                   rank \in {[i \in matching |-> RankOf(st, emb, matching, i)]} } : TRUE

StoreQuery(st, emb, n_results, matching) == Take(Ranked(st, emb, matching), n_results)

\* the store's evaluation of one condition on one record
Satisfies(rec, cond) ==
  IF cond.op = "eq" THEN rec[cond.field] = cond.value
  ELSE IF cond.op = "gte" THEN rec[cond.field] >= cond.value
  ELSE rec[cond.field] < cond.value

\* the records a where clause selects
Matching(st, where) ==
  {i \in DOMAIN st : \A k \in DOMAIN where : Satisfies(st[i], where[k])}

\* ids of the hits of one store query
QueryIds(st, emb, n_results, where) ==
  CHOOSE r \in { [k \in DOMAIN hits |-> st[hits[k]].id] :
                   hits \in {StoreQuery(st, emb, n_results, Matching(st, where))} } : TRUE

(***************************************************************************)
(* _link_resonant                                                          *)
(***************************************************************************)
\* mutant: the record itself is not discarded from the neighbours
SelectNotSelf_KeepSelf(idseq, spore_id) == idseq

SelectNotSelf(idseq, spore_id) == SelectSeq(idseq, LAMBDA sid : sid # spore_id)

LinkResonant(st, spore_id, embedding) ==
  IF Len(st) < 2 THEN st
  ELSE LET hitIds == QueryIds(st, embedding, TopN + 1, <<>>)
           links == Take(SelectNotSelf(hitIds, spore_id), TopN)
       IN IF links = <<>> THEN st
          ELSE [st EXCEPT ![IndexOf(st, spore_id)].links = links]

(***************************************************************************)
(* ingest_turn.  classification is what classify_memory returned (its own  *)
(* fallback on an oracle failure included) and dna what the DNA            *)
(* compilation step left.  The store ignores the add of an id it already   *)
(* holds; _link_resonant then still runs for that id.                      *)
(***************************************************************************)
DefaultClassification == [project |-> "general", topic |-> "unknown", activity |-> "discussion"]

\* dna = "(conversation)::{E:SER|T:LIN|C:MOD}"
ConversationDna ==
  <<"(", "conversation", ")", ":", ":", "{", "E:SER", "|", "T:LIN", "|", "C:MOD", "}">>

NewRecord(turn, classification, dna) ==
  [ id |-> SporeId(turn),
    emb |-> Embed(turn.text),
    session_id |-> turn.session,
    turn_number |-> turn.turn_number,
    timestamp |-> turn.timestamp,
    energy |-> InitialEnergy,
    dna |-> dna,
    project |-> classification.project,
    topic |-> classification.topic,
    activity |-> classification.activity,
    links |-> <<>> ]

\* mutant: the add of a stored id replaces the record
StoreAdd_Upsert(st, rec) ==
  IF rec.id \in Ids(st) THEN [st EXCEPT ![IndexOf(st, rec.id)] = rec] ELSE Append(st, rec)

\* collection.add
StoreAdd(st, rec) == IF rec.id \in Ids(st) THEN st ELSE Append(st, rec)

\* the store after ingest_turn(turn, use_groq)
IngestStore(st, turn, use_groq, classification, dna) ==
  LET cls == IF use_groq THEN classification ELSE DefaultClassification
      seq == IF use_groq THEN dna ELSE <<>>
  IN LinkResonant(StoreAdd(st, NewRecord(turn, cls, seq)), SporeId(turn), Embed(turn.text))

IngestTurn(turn, use_groq, classification, dna) ==
  /\ ingests < MaxIngests
  /\ ingests' = ingests + 1
  /\ store' = IngestStore(store, turn, use_groq, classification, dna)
  /\ ret' = [op |-> "ingest", id |-> SporeId(turn), turn |-> turn]
  /\ UNCHANGED <<dream_count, events, calls>>

(***************************************************************************)
(* dream_cycle                                                             *)
(***************************************************************************)
\* int(np.argmax(energies)): the first index of a maximal energy
ArgMax(st) ==
  CHOOSE i \in DOMAIN st :
    /\ \A j \in DOMAIN st : st[j].energy <= st[i].energy
    /\ \A j \in DOMAIN st : st[j].energy = st[i].energy => i <= j

\* mutant: the cluster is the seed's links without the seed
DreamCluster_LinksOnly(st) == Range(st[ArgMax(st)].links)

\* mutant: the cluster is the seed alone
DreamCluster_SeedOnly(st) == {st[ArgMax(st)].id}

\* dream_cluster = set([seed_id] + links)
DreamCluster(st) == {st[ArgMax(st)].id} \cup Range(st[ArgMax(st)].links)

\* mutant: a record outside the cluster loses 0.02 a cycle
NewEnergy_SlowDecay(energy, inCluster) ==
  IF inCluster THEN Min2(EnergyCeiling, energy + DreamBoost)
  ELSE Max2(EnergyFloor, energy - (DreamDecay - 1))

\* mutant: the decay is not clamped at the floor
NewEnergy_NoFloor(energy, inCluster) ==
  IF inCluster THEN Min2(EnergyCeiling, energy + DreamBoost)
  ELSE energy - DreamDecay

\* mutant: every record decays, the cluster included
NewEnergy_AllDecay(energy, inCluster) == Max2(EnergyFloor, energy - DreamDecay)

NewEnergy(energy, inCluster) ==
  IF inCluster THEN Min2(EnergyCeiling, energy + DreamBoost)
  ELSE Max2(EnergyFloor, energy - DreamDecay)

DreamStore(st) ==
  [i \in DOMAIN st |->
     [st[i] EXCEPT !.energy = NewEnergy(st[i].energy, st[i].id \in DreamCluster(st))]]

DreamCycle ==
  IF Len(store) < 2
  THEN /\ ret' = [op |-> "dream", skipped |-> TRUE, cluster |-> {}]
       /\ UNCHANGED <<store, dream_count, ingests, events, calls>>
  ELSE /\ dream_count < MaxDreams
       /\ store' = DreamStore(store)
       /\ dream_count' = dream_count + 1
       /\ ret' = [op |-> "dream", skipped |-> FALSE, cluster |-> DreamCluster(store)]
       /\ UNCHANGED <<ingests, events, calls>>

(***************************************************************************)
(* Specification of the store: ingests and dream cycles from the empty     *)
(* store.  Each turn comes with the classification the oracle gives it.    *)
(***************************************************************************)
Init ==
  /\ store = <<>>
  /\ dream_count = 0
  /\ ingests = 0
  /\ events = <<>>
  /\ calls = NoCalls
  /\ ret = [op |-> "none"]

OracleClassification(turn) ==
  IF turn.text = 0 THEN [project |-> "neo-console", topic |-> "crash", activity |-> "bugfix"]
  ELSE IF turn.text = 1 THEN [project |-> "ai2ai", topic |-> "embeddings", activity |-> "feature"]
  ELSE DefaultClassification

\* the DNA the compilation step leaves for a turn
OracleDna(turn) ==
  IF turn.text = 0 THEN <<"(", "crash", ")", ":", ":", "{", "E:ANG", "|", "T:ERU", "}">>
  ELSE ConversationDna

Ingest ==
  \E turn \in Turns : IngestTurn(turn, TRUE, OracleClassification(turn), OracleDna(turn))

Next == Ingest \/ DreamCycle

Spec == Init /\ [][Next]_vars

(***************************************************************************)
(* Repeated dream cycles: turns are ingested, then dream_cycle is called   *)
(* again and again.  The caller keeps in clusters the union of the         *)
(* clusters the cycles have returned so far.                               *)
(***************************************************************************)
ClustersSoFar == IF ret.op = "dream" THEN ret.clusters ELSE {}

RepeatedDream ==
  IF Len(store) < 2
  THEN /\ ret' = [op |-> "dream", skipped |-> TRUE, cluster |-> {}, clusters |-> ClustersSoFar]
       /\ UNCHANGED <<store, dream_count, ingests, events, calls>>
  ELSE /\ dream_count < MaxDreams
       /\ store' = DreamStore(store)
       /\ dream_count' = dream_count + 1
       /\ ret' = [op |-> "dream", skipped |-> FALSE, cluster |-> DreamCluster(store),
                  clusters |-> ClustersSoFar \cup DreamCluster(store)]
       /\ UNCHANGED <<ingests, events, calls>>

IngestBeforeDreams == dream_count = 0 /\ Ingest

NextRepeated == IngestBeforeDreams \/ RepeatedDream

SpecRepeated == Init /\ [][NextRepeated]_vars

(***************************************************************************)
(* Interleaved calls.  Two threads run dream_cycle and one runs            *)
(* ingest_turn against the same collection; a step is one call to the      *)
(* collection.  dream_cycle reads all_data once and then writes one        *)
(* record's energy per step from that snapshot; ingest_turn adds the       *)
(* record and _link_resonant then counts, queries and writes the links.    *)
(***************************************************************************)
MaxInterleavedDreams == 1
MaxInterleavedIngests == 3

\* mutant: the update replaces the metadata, the links are dropped
UpdateEnergy_Replace(st, sid, new_energy) ==
  [st EXCEPT ![IndexOf(st, sid)].energy = new_energy, ![IndexOf(st, sid)].links = <<>>]

\* collection.update(ids=[sid], metadatas=[{"energy": new_energy}])
UpdateEnergy(st, sid, new_energy) == [st EXCEPT ![IndexOf(st, sid)].energy = new_energy]

\* collection.update(ids=[spore_id], metadatas=[{"synaptic_links": links}])
UpdateLinks(st, spore_id, links) == [st EXCEPT ![IndexOf(st, spore_id)].links = links]

\* all_data = self.collection.get(); a store of fewer than two records
\* makes the cycle return at once
DreamGet(p) ==
  /\ calls[p].pc = "idle"
  /\ dream_count < MaxInterleavedDreams
  /\ IF Len(store) < 2
     THEN /\ ret' = [op |-> "get", by |-> p, skipped |-> TRUE]
          /\ UNCHANGED calls
     ELSE /\ calls' = [calls EXCEPT ![p] = [pc |-> "write", all_data |-> store,
                                            dream_cluster |-> DreamCluster(store), i |-> 1]]
          /\ ret' = [op |-> "get", by |-> p, skipped |-> FALSE]
  /\ UNCHANGED <<store, dream_count, ingests, events>>

\* one round of the loop over all_data["ids"]; dream_count grows after the
\* last round
DreamUpdate(p) ==
  /\ calls[p].pc = "write"
  /\ LET sid == calls[p].all_data[calls[p].i].id
         energy == calls[p].all_data[calls[p].i].energy
         last == calls[p].i = Len(calls[p].all_data)
     IN /\ store' = UpdateEnergy(store, sid, NewEnergy(energy, sid \in calls[p].dream_cluster))
        /\ calls' = [calls EXCEPT ![p] = IF last THEN [pc |-> "idle"]
                                         ELSE [calls[p] EXCEPT !.i = calls[p].i + 1]]
        /\ dream_count' = IF last THEN dream_count + 1 ELSE dream_count
        /\ ret' = [op |-> "energy", by |-> p, id |-> sid]
  /\ UNCHANGED <<ingests, events>>

\* self.collection.add(...) of ingest_turn
IngestAdd(p, turn) ==
  /\ calls[p].pc = "idle"
  /\ ingests < MaxInterleavedIngests
  /\ store' = StoreAdd(store, NewRecord(turn, OracleClassification(turn), OracleDna(turn)))
  /\ calls' = [calls EXCEPT ![p] = [pc |-> "count", turn |-> turn]]
  /\ ingests' = ingests + 1
  /\ ret' = [op |-> "add", by |-> p, id |-> SporeId(turn)]
  /\ UNCHANGED <<dream_count, events>>

\* self.collection.count() of _link_resonant
IngestCount(p) ==
  /\ calls[p].pc = "count"
  /\ calls' = [calls EXCEPT ![p] = IF Len(store) < 2 THEN [pc |-> "idle"]
                                   ELSE [pc |-> "query", turn |-> calls[p].turn]]
  /\ ret' = [op |-> "count", by |-> p, id |-> SporeId(calls[p].turn)]
  /\ UNCHANGED <<store, dream_count, ingests, events>>

\* self.collection.query(...) of _link_resonant and the links it leaves
IngestQuery(p) ==
  /\ calls[p].pc = "query"
  /\ LET spore_id == SporeId(calls[p].turn)
         hitIds == QueryIds(store, Embed(calls[p].turn.text), TopN + 1, <<>>)
         links == Take(SelectNotSelf(hitIds, spore_id), TopN)
     IN calls' = [calls EXCEPT ![p] = IF links = <<>> THEN [pc |-> "idle"]
                                      ELSE [pc |-> "link", turn |-> calls[p].turn,
                                            links |-> links]]
  /\ ret' = [op |-> "query", by |-> p, id |-> SporeId(calls[p].turn)]
  /\ UNCHANGED <<store, dream_count, ingests, events>>

\* the update of synaptic_links that ends _link_resonant
IngestLink(p) ==
  /\ calls[p].pc = "link"
  /\ store' = UpdateLinks(store, SporeId(calls[p].turn), calls[p].links)
  /\ calls' = [calls EXCEPT ![p] = [pc |-> "idle"]]
  /\ ret' = [op |-> "links", by |-> p, id |-> SporeId(calls[p].turn)]
  /\ UNCHANGED <<dream_count, ingests, events>>

DreamGetStep == \E p \in Dreamers : DreamGet(p)

DreamUpdateStep == \E p \in Dreamers : DreamUpdate(p)

IngestAddStep == \E p \in Ingesters, turn \in Turns : IngestAdd(p, turn)

IngestCountStep == \E p \in Ingesters : IngestCount(p)

IngestQueryStep == \E p \in Ingesters : IngestQuery(p)

IngestLinkStep == \E p \in Ingesters : IngestLink(p)

NextInterleaved ==
  \/ DreamGetStep
  \/ DreamUpdateStep
  \/ IngestAddStep
  \/ IngestCountStep
  \/ IngestQueryStep
  \/ IngestLinkStep

SpecInterleaved == Init /\ [][NextInterleaved]_vars

(***************************************************************************)
(* Recall.  An analysis is what analyze_query returns; "none" stands for   *)
(* an absent (null) field.  oracle = [ok, reply] is one oracle call: it    *)
(* fails, or it answers with reply.                                        *)
(***************************************************************************)
FetchCap == 20
FetchFactor == 3
RecentWindow == 7 * 24 * 3600
MinFilteredHits == 2
DefaultScore == 5

\* analyze_query: the oracle's reply, or the passthrough fallback on failure
AnalyzeQuery(query, oracle) ==
  IF oracle.ok THEN oracle.reply
  ELSE [project |-> "none", topic |-> "none", activity |-> "none",
        time_hint |-> "any", refined_query |-> query]

\* mutant: the analysed topic is a condition too
BuildWhereFilters_TopicToo(analysis, now) ==
  (IF analysis.topic # "none"
     THEN <<[field |-> "topic", op |-> "eq", value |-> analysis.topic]>> ELSE <<>>)
  \o (IF analysis.project # "none"
        THEN <<[field |-> "project", op |-> "eq", value |-> analysis.project]>> ELSE <<>>)
  \o (IF analysis.activity # "none"
        THEN <<[field |-> "activity", op |-> "eq", value |-> analysis.activity]>> ELSE <<>>)
  \o (IF analysis.time_hint = "recent"
        THEN <<[field |-> "timestamp", op |-> "gte", value |-> now - RecentWindow]>>
        ELSE IF analysis.time_hint = "old"
               THEN <<[field |-> "timestamp", op |-> "lt", value |-> now - RecentWindow]>>
               ELSE <<>>)

\* _build_where_filters: the list of conditions; <<>> is "no where clause"
BuildWhereFilters(analysis, now) ==
  (IF analysis.project # "none"
     THEN <<[field |-> "project", op |-> "eq", value |-> analysis.project]>> ELSE <<>>)
  \o (IF analysis.activity # "none"
        THEN <<[field |-> "activity", op |-> "eq", value |-> analysis.activity]>> ELSE <<>>)
  \o (IF analysis.time_hint = "recent"
        THEN <<[field |-> "timestamp", op |-> "gte", value |-> now - RecentWindow]>>
        ELSE IF analysis.time_hint = "old"
               THEN <<[field |-> "timestamp", op |-> "lt", value |-> now - RecentWindow]>>
               ELSE <<>>)

\* fetch_n = min(n * 3, 20)
FetchN(n) == Min2(n * FetchFactor, FetchCap)

\* rerank_memories.  rr = [ok, scores]: the oracle fails, or it scores the
\* candidate at 0-based index i with ScoreAt(rr.scores, i).
ScoreAt(scores, i) ==
  IF scores = "rising" THEN i % 11
  ELSE IF scores = "first_only" THEN (IF i = 0 THEN 2 ELSE DefaultScore)
  ELSE DefaultScore

\* mutant: equal scores come out in reverse order
SortByScoreDesc_TiesReversed(mems, scores) ==
  LET before(j, i) ==
        \/ ScoreAt(scores, j - 1) > ScoreAt(scores, i - 1)
        \/ ScoreAt(scores, j - 1) = ScoreAt(scores, i - 1) /\ j > i
  IN CHOOSE r \in { [k \in DOMAIN m |-> m[CHOOSE i \in DOMAIN m : pos[i] = k]] :
                      m \in {mems},
                      pos \in {[i \in 1..Len(mems) |->
                                 Cardinality({j \in 1..Len(mems) : before(j, i)}) + 1]} } : TRUE

\* memories.sort(key=relevance_score, reverse=True): descending and stable
SortByScoreDesc(mems, scores) ==
  LET before(j, i) ==
        \/ ScoreAt(scores, j - 1) > ScoreAt(scores, i - 1)
        \/ ScoreAt(scores, j - 1) = ScoreAt(scores, i - 1) /\ j < i
  IN CHOOSE r \in { [k \in DOMAIN m |-> m[CHOOSE i \in DOMAIN m : pos[i] = k]] :
                      m \in {mems},
                      pos \in {[i \in 1..Len(mems) |->
                                 Cardinality({j \in 1..Len(mems) : before(j, i)}) + 1]} } : TRUE

RerankMemories(mems, rr) ==
  IF mems = <<>> THEN mems
  ELSE IF rr.ok THEN SortByScoreDesc(mems, rr.scores)
  ELSE mems

\* the store stage of _smart_recall: the queries it makes, in order, and how
\* the stage ends.  errs[k] tells whether the k-th store query of this call
\* raises.  A query is logged as [filtered, n_results, raised].
\* mutant: only an empty filtered result falls back
TooFew_EmptyOnly(hits) == hits = <<>>

\* not results["ids"][0] or len(results["ids"][0]) < 2
TooFew(hits) == hits = <<>> \/ Len(hits) < MinFilteredHits

StageOutcome(where, fetch_n, errs, unf, fil) ==
  LET q(f, k) == [filtered |-> f, n_results |-> fetch_n, raised |-> errs[k]]
  IN IF where # <<>>
     THEN IF errs[1]
          THEN \* filtered query raised: the handler queries unfiltered
               IF errs[2]
               THEN [queries |-> <<q(TRUE, 1), q(FALSE, 2)>>, raised |-> TRUE, ids |-> <<>>]
               ELSE [queries |-> <<q(TRUE, 1), q(FALSE, 2)>>, raised |-> FALSE, ids |-> unf]
          ELSE IF TooFew(fil)
               THEN \* too few hits: unfiltered query inside the try
                    IF errs[2]
                    THEN \* it raised: the handler queries unfiltered again
                         IF errs[3]
                         THEN [queries |-> <<q(TRUE, 1), q(FALSE, 2), q(FALSE, 3)>>,
                               raised |-> TRUE, ids |-> <<>>]
                         ELSE [queries |-> <<q(TRUE, 1), q(FALSE, 2), q(FALSE, 3)>>,
                               raised |-> FALSE, ids |-> unf]
                    ELSE [queries |-> <<q(TRUE, 1), q(FALSE, 2)>>, raised |-> FALSE, ids |-> unf]
               ELSE [queries |-> <<q(TRUE, 1)>>, raised |-> FALSE, ids |-> fil]
     ELSE IF errs[1]
          THEN IF errs[2]
               THEN [queries |-> <<q(FALSE, 1), q(FALSE, 2)>>, raised |-> TRUE, ids |-> <<>>]
               ELSE [queries |-> <<q(FALSE, 1), q(FALSE, 2)>>, raised |-> FALSE, ids |-> unf]
          ELSE [queries |-> <<q(FALSE, 1)>>, raised |-> FALSE, ids |-> unf]

StoreStage(st, emb, where, fetch_n, errs) ==
  CHOOSE r \in { StageOutcome(where, fetch_n, errs, unf, fil) :
                   unf \in {QueryIds(st, emb, fetch_n, <<>>)},
                   fil \in {QueryIds(st, emb, fetch_n, where)} } : TRUE

\* _smart_recall(query, n): what the call did and what it returns
RecallOutcome(query, n, now, oracle, rr, analysis, where, stage, memories) ==
  [ op |-> "smart", query |-> query, n |-> n, now |-> now,
    analysis_failed |-> ~oracle.ok, analysis |-> analysis, where |-> where,
    queries |-> stage.queries, raised |-> stage.raised,
    candidates |-> stage.ids,
    reranked |-> Len(stage.ids) > 1, rr |-> rr,
    result |-> IF stage.raised THEN <<>> ELSE Take(memories, n) ]

SmartRecallRun(st, query, n, now, oracle, errs, rr) ==
  LET analysis == AnalyzeQuery(query, oracle)
      refined == analysis.refined_query
      embedding == Embed(refined)
      where == BuildWhereFilters(analysis, now)
  IN CHOOSE r \in
       { RecallOutcome(query, n, now, oracle, rr, analysis, where, stage,
                       IF Len(stage.ids) > 1 THEN RerankMemories(stage.ids, rr) ELSE stage.ids) :
           stage \in {StoreStage(st, embedding, where, FetchN(n), errs)} } : TRUE

\* _basic_recall(query, n)
BasicRecallRun(st, query, n, err) ==
  [ op |-> "basic", query |-> query, n |-> n,
    queries |-> <<[filtered |-> FALSE, n_results |-> n, raised |-> err]>>,
    raised |-> err,
    result |-> IF err THEN <<>> ELSE QueryIds(st, Embed(query), n, <<>>) ]

\* recall(query, n, smart=True)
SmartRecall(query, n, now, oracle, errs, rr) ==
  /\ ret' = SmartRecallRun(store, query, n, now, oracle, errs, rr)
  /\ UNCHANGED <<store, dream_count, ingests, events, calls>>

\* recall(query, n, smart=False)
BasicRecall(query, n, err) ==
  /\ ret' = BasicRecallRun(store, query, n, err)
  /\ UNCHANGED <<store, dream_count, ingests, events, calls>>

\* memory_query_impl(cortex, query, n): recall in smart mode, then the MBEL
\* aggregation, whose failure is caught
MemoryQuery(query, n, now, oracle, errs, rr, mbelOk) ==
  /\ \E run \in {SmartRecallRun(store, query, n, now, oracle, errs, rr)} :
       ret' = [ op |-> "memory_query", query |-> query, n |-> n,
                raised |-> run.raised,
                queries |-> run.queries,
                count |-> IF run.raised THEN 0 ELSE Len(run.result),
                has_mbel |-> ~run.raised /\ run.result # <<>> /\ mbelOk,
                memories |-> IF ~run.raised /\ ~mbelOk THEN run.result ELSE <<>> ]
  /\ UNCHANGED <<store, dream_count, ingests, events, calls>>

(***************************************************************************)
(* Specification of recall: the store holds the first k turns of a         *)
(* session, ingested in order, and recalls run against it.                 *)
(***************************************************************************)
MaxStore == 21
MaxN == 21

SessionTurn(i) ==
  [session |-> <<"sessCCCC", "x">>, turn_number |-> i, timestamp |-> i * 1000, text |-> i % 3]

SessionClassification(i) ==
  IF i = 1 THEN [project |-> "neo-console", topic |-> "crash", activity |-> "bugfix"]
  ELSE IF i \in {2, 4} THEN [project |-> "ai2ai", topic |-> "embeddings", activity |-> "feature"]
  ELSE IF i = 3 THEN [project |-> "ai2ai", topic |-> "crash", activity |-> "bugfix"]
  ELSE DefaultClassification

RECURSIVE SessionStore(_)
SessionStore(k) ==
  IF k = 0 THEN <<>>
  ELSE IngestStore(SessionStore(k - 1), SessionTurn(k), TRUE, SessionClassification(k),
                   ConversationDna)

StoreSizes == {0, 1, 2, 4, MaxStore}

RecallNs == {1, 2, 7, FetchCap, MaxN}

Queries == {0, 1}

\* call time: the turns up to the second are older than the 7-day window,
\* the third is exactly 7 days old
RecallNow == RecentWindow + 3000

OracleReplies ==
  [ project : {"none", "neo-console", "moltbook"},
    topic : {"crash"},
    activity : {"none", "bugfix"},
    time_hint : {"recent", "old", "any"},
    refined_query : Queries ]

AnyReply ==
  [project |-> "none", topic |-> "none", activity |-> "none",
   time_hint |-> "any", refined_query |-> 0]

OracleCalls == {[ok |-> FALSE, reply |-> AnyReply]} \cup [ok : {TRUE}, reply : OracleReplies]

RerankCalls ==
  {[ok |-> FALSE, scores |-> "none"]}
  \cup [ok : {TRUE}, scores : {"rising", "first_only"}]

StoreErrors == [1..3 -> BOOLEAN]

InitRecall ==
  /\ store \in {SessionStore(k) : k \in StoreSizes}
  /\ dream_count = 0
  /\ ingests = 0
  /\ events = <<>>
  /\ calls = NoCalls
  /\ ret = [op |-> "none"]

\* no call has been made yet: recall leaves the store as it is, so one call
\* from each store shows all there is to see
Idle == ret.op = "none"

Smart ==
  Idle /\ \E query \in Queries, n \in RecallNs, oracle \in OracleCalls,
     errs \in StoreErrors, rr \in RerankCalls :
    SmartRecall(query, n, RecallNow, oracle, errs, rr)

Basic == Idle /\ \E query \in Queries, n \in RecallNs, err \in BOOLEAN : BasicRecall(query, n, err)

Query ==
  Idle /\ \E query \in Queries, n \in RecallNs,
     oracle \in {o \in OracleCalls : o.reply.refined_query = 0 /\ o.reply.time_hint = "any"},
     errs \in StoreErrors, rr \in {r \in RerankCalls : ~r.ok}, mbelOk \in BOOLEAN :
    MemoryQuery(query, n, RecallNow, oracle, errs, rr, mbelOk)

NextRecall == Smart \/ Basic \/ Query

SpecRecall == InitRecall /\ [][NextRecall]_vars

(***************************************************************************)
(* Memory DNA text: memome_codex.py, context_persistence.py.               *)
(* A text is a sequence of atoms.  Each of the characters ( ) : { } | ,    *)
(* and the blank is an atom of its own; a run of other characters (a word, *)
(* a codon such as E:JOY) is one atom.                                     *)
(***************************************************************************)
MaxBody == 3
MaxTopics == 4
MaxConcepts == 3

SeqsUpTo(S, n) == UNION {[1..k -> S] : k \in 0..n}

\* position of the first ch at or after from, 0 if there is none
FirstIndex(s, ch, from) ==
  IF \E i \in from..Len(s) : s[i] = ch
  THEN CHOOSE i \in from..Len(s) : s[i] = ch /\ \A j \in from..(i - 1) : s[j] # ch
  ELSE 0

\* str.split(sep)
RECURSIVE Split(_, _)
Split(s, sep) ==
  IF FirstIndex(s, sep, 1) = 0
  THEN <<s>>
  ELSE <<SubSeq(s, 1, FirstIndex(s, sep, 1) - 1)>>
         \o Split(SubSeq(s, FirstIndex(s, sep, 1) + 1, Len(s)), sep)

\* str.strip()
RECURSIVE Strip(_)
Strip(s) ==
  IF s # <<>> /\ s[1] = " " THEN Strip(Tail(s))
  ELSE IF s # <<>> /\ s[Len(s)] = " " THEN Strip(SubSeq(s, 1, Len(s) - 1))
  ELSE s

\* sep.join(parts)
RECURSIVE Join(_, _)
Join(parts, sep) ==
  IF parts = <<>> THEN <<>>
  ELSE IF Len(parts) = 1 THEN parts[1]
  ELSE parts[1] \o <<sep>> \o Join(Tail(parts), sep)

\* re.match(r'\(([^)]+)\)::\{([^}]+)\}', sequence): the pattern is matched at
\* the start of the text and need not reach its end.  Group 1 cannot hold a
\* ")" and must be followed by one, so it ends at the first ")"; group 2
\* likewise ends at the first "}".  No match raises ValueError (ok = FALSE).
ParseDnaSequence(sequence) ==
  LET p == FirstIndex(sequence, ")", 2)
      q == FirstIndex(sequence, "}", p + 4)
      parts == Split(SubSeq(sequence, p + 4, q - 1), "|")
  IN IF /\ Len(sequence) >= 1
        /\ sequence[1] = "("
        /\ p >= 3
        /\ Len(sequence) >= p + 3
        /\ sequence[p + 1] = ":"
        /\ sequence[p + 2] = ":"
        /\ sequence[p + 3] = "{"
        /\ q >= p + 5
     THEN [ok |-> TRUE,
           core_concept |-> SubSeq(sequence, 2, p - 1),
           codons |-> [i \in DOMAIN parts |-> Strip(parts[i])],
           raw_sequence |-> sequence]
     ELSE [ok |-> FALSE]

\* f"{new_concept}::{{{codon_string}}}" with new_concept = "(" concept ")"
RenderDna(core_concept, codons) ==
  <<"(">> \o core_concept \o <<")", ":", ":", "{">> \o Join(codons, "|") \o <<"}">>

\* the codons with non-ASCII symbols are written with ASCII names
ContextMappings ==
  [w \in {"excited", "calm", "frustrated", "confused", "amazed", "sad",
          "just_started", "ongoing", "repeated", "ending", "frozen",
          "simple", "complex", "abstract",
          "exploring", "focused", "reflecting", "discovering",
          "flowing", "sharp", "rhythmic", "resonant"} |->
     CASE w = "excited" -> "E:JOY" [] w = "calm" -> "E:SER"
       [] w = "frustrated" -> "E:ANG" [] w = "confused" -> "E:FEA"
       [] w = "amazed" -> "E:AWE" [] w = "sad" -> "E:SAD"
       [] w = "just_started" -> "T:ERU" [] w = "ongoing" -> "T:LIN"
       [] w = "repeated" -> "T:CYC" [] w = "ending" -> "T:DEC"
       [] w = "frozen" -> "T:STA"
       [] w = "simple" -> "C:SNG" [] w = "complex" -> "C:DNS"
       [] w = "abstract" -> "C:SPR"
       [] w = "exploring" -> "Psi:DRM" [] w = "focused" -> "Psi:ALR"
       [] w = "reflecting" -> "Psi:MED" [] w = "discovering" -> "Psi:EMR"
       [] w = "flowing" -> "F:inf" [] w = "sharp" -> "F:delta!"
       [] w = "rhythmic" -> "F:arrow" [] w = "resonant" -> "F:approx"]

\* str.lower() on the words the inputs use
Lower(w) ==
  CASE w = "Excited" -> "excited"
    [] w = "SIMPLE" -> "simple"
    [] OTHER -> w

\* the codon a context value selects; "absent" stands for a missing key
MappedCodon(value) ==
  IF value # "absent" /\ Lower(value) \in DOMAIN ContextMappings
  THEN << <<ContextMappings[Lower(value)]>> >>
  ELSE <<>>

\* a missing main_topics key leaves concepts = [], as the empty list does
AnalyzeContext(context_data) ==
  [codons |-> MappedCodon(context_data.user_emotion)
                \o MappedCodon(context_data.task_complexity)
                \o MappedCodon(context_data.interaction_stage)
                \o MappedCodon(context_data.conversation_style),
   concepts |-> Take(context_data.main_topics, MaxConcepts)]

CoreConcept(concepts) ==
  IF concepts # <<>>
  THEN <<"(">> \o Join(concepts, ",") \o <<")">>
  ELSE <<"(", "context", ")">>

\* mutant: no default pair
CodonString_NoDefault(codons) == Join(codons, "|")

CodonString(codons) ==
  IF codons # <<>> THEN Join(codons, "|") ELSE <<"C:SNG", "|", "T:STA">>

EncodeContextToDna(context_data) ==
  CoreConcept(AnalyzeContext(context_data).concepts)
    \o <<":", ":", "{">>
    \o CodonString(AnalyzeContext(context_data).codons)
    \o <<"}">>

ParseDna(sequence) ==
  /\ ret' = [op |-> "parse", sequence |-> sequence, parsed |-> ParseDnaSequence(sequence)]
  /\ UNCHANGED <<store, dream_count, ingests, events, calls>>

\* parse, render the parsed result, parse again
RenderParsed(sequence) ==
  /\ ParseDnaSequence(sequence).ok
  /\ \E parsed \in {ParseDnaSequence(sequence)} :
     \E rendered \in {RenderDna(parsed.core_concept, parsed.codons)} :
       ret' = [op |-> "render", sequence |-> sequence, parsed |-> parsed,
               rendered |-> rendered, reparsed |-> ParseDnaSequence(rendered)]
  /\ UNCHANGED <<store, dream_count, ingests, events, calls>>

EncodeContext(context_data) ==
  /\ \E dna \in {EncodeContextToDna(context_data)} :
       ret' = [op |-> "encode", context_data |-> context_data,
               analysis |-> AnalyzeContext(context_data),
               dna_sequence |-> dna, parsed |-> ParseDnaSequence(dna)]
  /\ UNCHANGED <<store, dream_count, ingests, events, calls>>

(***************************************************************************)
(* The codec specification: one call on one input.                         *)
(***************************************************************************)
BodyAtoms == {"a", "b", "|", " "}

ConceptTexts == {<<>>, <<"a">>, <<"a", ",", "b">>, <<" ">>}

Separators ==
  {<<")", ":", ":", "{">>, <<")", ":", "{">>, <<")", ":", ":">>, <<":", ":", "{">>}

DnaInputs ==
  {pre \o <<"(">> \o c \o m \o body \o close \o post :
     pre \in {<<>>, <<"x">>}, c \in ConceptTexts, m \in Separators,
     body \in SeqsUpTo(BodyAtoms, MaxBody),
     close \in {<<>>, <<"}">>}, post \in {<<>>, <<"z">>}}

\* concept tokens: a word, the empty string, and a token holding ")"
TopicTokens == {<<"rain">>, <<>>, <<"f", "(", "x", ")">>}

ContextInputs ==
  [user_emotion : {"absent", "Excited", "calm", "bored"},
   task_complexity : {"absent", "SIMPLE"},
   interaction_stage : {"absent", "ongoing"},
   conversation_style : {"absent", "sharp"},
   main_topics : SeqsUpTo(TopicTokens, MaxTopics)]

InitCodec ==
  /\ store = <<>>
  /\ dream_count = 0
  /\ ingests = 0
  /\ events = <<>>
  /\ calls = NoCalls
  /\ ret = [op |-> "none"]

Parse == Idle /\ \E sequence \in DnaInputs : ParseDna(sequence)

Render == Idle /\ \E sequence \in DnaInputs : RenderParsed(sequence)

Encode == Idle /\ \E context_data \in ContextInputs : EncodeContext(context_data)

NextCodec == Parse \/ Render \/ Encode

SpecCodec == InitCodec /\ [][NextCodec]_vars

(***************************************************************************)
(* The ingest pipeline with its external calls: ingest_turn with           *)
(* embed_passage (jina_embedder.py), classify_memory and compile_to_dna    *)
(* (groq_compiler.py) and the store calls.  An oracle state is             *)
(* [key, classify, compile]: whether the API key can be loaded, and for    *)
(* each of the two requests whether it answers (ok) and with what reply.   *)
(***************************************************************************)
MaxPipelineIngests == 2
MinConceptLength == 4
FallbackConcepts == 2
ReplyConcepts == 3

\* len() of the atoms the inputs use; a punctuation atom is one character
AtomLength(a) ==
  CASE a = "print" -> 5
    [] a = "fails" -> 5
    [] a = "crash" -> 5
    [] a = "SIMPLE" -> 6
    [] a = "simple" -> 6
    [] a = "it" -> 2
    [] OTHER -> 1

RECURSIVE WordLength(_)
WordLength(word) ==
  IF word = <<>> THEN 0 ELSE AtomLength(Head(word)) + WordLength(Tail(word))

LowerText(word) == [i \in DOMAIN word |-> Lower(word[i])]

\* the maximal runs of atoms outside seps, in order: str.split() for
\* seps = {" "}, the non-empty pieces of re.split(r'[:, ]+', s) for
\* seps = {":", ",", " "}
RECURSIVE Runs(_, _)
Runs(s, seps) ==
  IF s = <<>> THEN <<>>
  ELSE IF s[1] \in seps THEN Runs(Tail(s), seps)
  ELSE LET n == IF \E i \in DOMAIN s : s[i] \in seps
                THEN CHOOSE i \in DOMAIN s : s[i] \in seps /\ \A j \in 1..(i - 1) : s[j] \notin seps
                ELSE Len(s) + 1
       IN <<SubSeq(s, 1, n - 1)>> \o Runs(SubSeq(s, n, Len(s)), seps)

\* summary = f"{turn.question[:200]} -> {turn.answer[:300]}"; the inputs are
\* shorter than the two cuts
Summary(turn) == turn.question \o <<" ", "->", " ">> \o turn.answer

\* compile_to_dna, the fallback after the try block
FallbackCodons ==
  <<"E:SER", "|", "T:LIN", "|", "C:MOD", "|", "S:VIS", "|", "F:arrow", "|", "Psi:ALR">>

FallbackDna(text) ==
  LET words == Runs(LowerText(text), {" "})
      concepts == Take(SelectSeq(words, LAMBDA w : WordLength(w) > MinConceptLength),
                       FallbackConcepts)
      concept == IF concepts # <<>> THEN <<"(">> \o Join(concepts, ",") \o <<")">>
                 ELSE <<"(", "memory", ")">>
  IN concept \o <<":", ":", "{">> \o FallbackCodons \o <<"}">>

\* re.search(r'\{([^}]+)\}', raw): where the leftmost match starts, 0 if none
BraceStart(raw) ==
  LET fits(i) == /\ raw[i] = "{"
                 /\ i + 1 <= Len(raw)
                 /\ raw[i + 1] # "}"
                 /\ FirstIndex(raw, "}", i + 2) # 0
  IN IF \E i \in DOMAIN raw : fits(i)
     THEN CHOOSE i \in DOMAIN raw : fits(i) /\ \A j \in 1..(i - 1) : ~fits(j)
     ELSE 0

\* re.search(r'^(.+?)::\{', raw): where the first "::{" after at least one
\* character starts, 0 if none
ConceptEnd(raw) ==
  LET fits(k) == /\ k + 2 <= Len(raw)
                 /\ raw[k] = ":" /\ raw[k + 1] = ":" /\ raw[k + 2] = "{"
  IN IF \E k \in 2..Len(raw) : fits(k)
     THEN CHOOSE k \in 2..Len(raw) : fits(k) /\ \A j \in 2..(k - 1) : ~fits(j)
     ELSE 0

\* "Normalize concept to (x,y) format"
NormalizeConcept(concept_raw) ==
  IF concept_raw # <<>> /\ concept_raw[1] = "("
  THEN concept_raw
  ELSE <<"(">> \o Join(Take(Runs(LowerText(concept_raw), {":", ",", " "}), ReplyConcepts), ",")
         \o <<")">>

\* the dna built from the first line of the oracle's reply
ReplyDna(raw) ==
  NormalizeConcept(Strip(SubSeq(raw, 1, ConceptEnd(raw) - 1)))
    \o <<":", ":", "{">>
    \o SubSeq(raw, BraceStart(raw) + 1, FirstIndex(raw, "}", BraceStart(raw) + 2) - 1)
    \o <<"}">>

\* compile_to_dna(text): a missing API key raises before the try block; a
\* failed request, a reply of another shape and a dna that does not parse
\* all end in the fallback
CompileToDna(text, oracle) ==
  IF ~oracle.key THEN [raised |-> TRUE, dna |-> <<>>]
  ELSE IF /\ oracle.compile.ok
          /\ BraceStart(oracle.compile.reply) # 0
          /\ ConceptEnd(oracle.compile.reply) # 0
          /\ ParseDnaSequence(ReplyDna(oracle.compile.reply)).ok
       THEN [raised |-> FALSE, dna |-> ReplyDna(oracle.compile.reply)]
       ELSE [raised |-> FALSE, dna |-> FallbackDna(text)]

\* classify_memory: every failure, the missing key included, is caught
ClassifyMemory(oracle) ==
  IF oracle.key /\ oracle.classify.ok THEN oracle.classify.reply
  ELSE DefaultClassification

\* the dna ingest_turn stores: "" without the oracle, the default when
\* compile_to_dna raised
IngestDna(turn, use_groq, oracle) ==
  IF ~use_groq THEN <<>>
  ELSE IF CompileToDna(Summary(turn), oracle).raised THEN ConversationDna
  ELSE CompileToDna(Summary(turn), oracle).dna

\* ingest_turn(turn, use_groq) with its external calls: embed_passage
\* raises before any store call; the neighbour query of _link_resonant
\* raises after collection.add
IngestOutcome(st, turn, use_groq, ext) ==
  LET cls == IF use_groq THEN ClassifyMemory(ext.oracle) ELSE DefaultClassification
      dna == IngestDna(turn, use_groq, ext.oracle)
      added == StoreAdd(st, NewRecord(turn, cls, dna))
  IN IF ~ext.embed_ok
     THEN [raised |-> TRUE, store |-> st]
     ELSE IF Len(added) >= 2 /\ ~ext.query_ok
          THEN [raised |-> TRUE, store |-> added]
          ELSE [raised |-> FALSE,
                store |-> LinkResonant(added, SporeId(turn), Embed(turn.text))]

IngestPipeline(turn, use_groq, ext) ==
  /\ ingests < MaxPipelineIngests
  /\ ingests' = ingests + 1
  /\ \E out \in {IngestOutcome(store, turn, use_groq, ext)} :
       /\ store' = out.store
       /\ ret' = [op |-> "ingest", turn |-> turn, use_groq |-> use_groq, ext |-> ext,
                  raised |-> out.raised,
                  id |-> IF out.raised THEN "none" ELSE SporeId(turn)]
  /\ UNCHANGED <<dream_count, events, calls>>

(***************************************************************************)
(* The pipeline specification: ingests of turns with distinct ids, each    *)
(* under any state of the external services.                               *)
(***************************************************************************)
PipelineTurns ==
  { [session |-> <<"sessDDDD", "x">>, turn_number |-> 1, timestamp |-> 10, text |-> 0,
     question |-> <<"print", "(", "x", ")", " ", "fails">>, answer |-> <<"it", " ", "crash">>],
    [session |-> <<"sessDDDD", "x">>, turn_number |-> 2, timestamp |-> 20, text |-> 1,
     question |-> <<"it", " ", "fails">>, answer |-> <<"crash">>],
    [session |-> <<"sessDDDD", "x">>, turn_number |-> 3, timestamp |-> 30, text |-> 2,
     question |-> <<"it">>, answer |-> <<"x">>] }

ClassifyReplies ==
  { [ok |-> FALSE, reply |-> DefaultClassification],
    [ok |-> TRUE, reply |-> [project |-> "neo-console", topic |-> "crash", activity |-> "bugfix"]] }

CompileReplies ==
  { [ok |-> FALSE, reply |-> <<>>],
    [ok |-> TRUE, reply |-> <<"(", "crash", ")", ":", ":", "{", "E:ANG", "|", "T:ERU", "}">>],
    [ok |-> TRUE, reply |-> <<"SIMPLE", ":", ":", "crash", ":", ":", "{", "E:ANG", "}">>],
    [ok |-> TRUE, reply |-> <<"(", "f", "(", "x", ")", ")", ":", ":", "{", "E:ANG", "}">>],
    [ok |-> TRUE, reply |-> <<"it", " ", "fails">>] }

OracleStates ==
  { [key |-> FALSE, classify |-> [ok |-> FALSE, reply |-> DefaultClassification],
     compile |-> [ok |-> FALSE, reply |-> <<>>]] }
    \cup [key : {TRUE}, classify : ClassifyReplies, compile : CompileReplies]

ExternalStates == [embed_ok : BOOLEAN, query_ok : BOOLEAN, oracle : OracleStates]

PipelineIngest ==
  \E turn \in PipelineTurns, use_groq \in BOOLEAN, ext \in ExternalStates :
    IngestPipeline(turn, use_groq, ext)

NextPipeline == PipelineIngest

SpecPipeline == Init /\ [][NextPipeline]_vars

(***************************************************************************)
(* Reproduction: weaver_engine.py.  Rates are in hundredths.               *)
(***************************************************************************)
MaxCodonsA == 2
MaxCodonsB == 3
DefaultMutationRate == 2
CrossoverRate == 50
OffspringEnergy == 50

\* the codons with non-ASCII symbols are written with ASCII names
CodonMutations ==
  [c \in {"E:SER", "E:JOY", "E:AWE", "E:SAD", "E:ANG", "E:FEA",
          "T:STA", "T:LIN", "T:CYC", "T:ERU", "T:DEC",
          "F:delta!", "F:inf", "F:arrow", "F:approx",
          "Psi:ALR", "Psi:DRM", "Psi:MED", "Psi:EMR"} |->
     CASE c = "E:SER" -> <<"E:JOY", "E:AWE", "E:SAD">>
       [] c = "E:JOY" -> <<"E:SER", "E:AWE">>
       [] c = "E:AWE" -> <<"E:JOY", "E:SER", "E:FEA">>
       [] c = "E:SAD" -> <<"E:SER", "E:FEA">>
       [] c = "E:ANG" -> <<"E:FEA", "E:AWE">>
       [] c = "E:FEA" -> <<"E:ANG", "E:SAD">>
       [] c = "T:STA" -> <<"T:CYC", "T:DEC">>
       [] c = "T:LIN" -> <<"T:ERU", "T:CYC">>
       [] c = "T:CYC" -> <<"T:STA", "T:LIN">>
       [] c = "T:ERU" -> <<"T:LIN", "T:DEC">>
       [] c = "T:DEC" -> <<"T:STA", "T:ERU">>
       [] c = "F:delta!" -> <<"F:inf", "F:arrow">>
       [] c = "F:inf" -> <<"F:approx", "F:delta!">>
       [] c = "F:arrow" -> <<"F:delta!", "F:approx">>
       [] c = "F:approx" -> <<"F:inf", "F:arrow">>
       [] c = "Psi:ALR" -> <<"Psi:EMR", "Psi:MED">>
       [] c = "Psi:DRM" -> <<"Psi:MED", "Psi:EMR">>
       [] c = "Psi:MED" -> <<"Psi:ALR", "Psi:DRM">>
       [] c = "Psi:EMR" -> <<"Psi:ALR", "Psi:DRM">>]

\* synthesis_rules, in the order of the dictionary
SynthesisRules ==
  << [key_combo |-> {"music", "light"}, result |-> "harmony"],
     [key_combo |-> {"rain", "memory"}, result |-> "nostalgia"],
     [key_combo |-> {"storm", "peace"}, result |-> "aftermath"],
     [key_combo |-> {"journey", "discovery"}, result |-> "revelation"],
     [key_combo |-> {"pattern", "chaos"}, result |-> "emergence"],
     [key_combo |-> {"old", "new"}, result |-> "transition"],
     [key_combo |-> {"sound", "silence"}, result |-> "resonance"] >>

AbstractWords == {"memory", "time", "essence", "pattern", "rhythm", "flow", "light", "shadow"}

\* a concept is the list of words between the parentheses
SynthesizeConcept(words_a, words_b) ==
  LET all_words == words_a \o words_b
      hits == {k \in DOMAIN SynthesisRules : SynthesisRules[k].key_combo \cap Range(all_words) # {}}
      found_abstract == SelectSeq(all_words, LAMBDA w : w \in AbstractWords)
  IN IF hits # {}
     THEN <<SynthesisRules[CHOOSE k \in hits : \A j \in hits : k <= j].result>>
     ELSE IF found_abstract # <<>>
          THEN <<found_abstract[1]>>
          ELSE <<words_a[1], words_b[1]>>

\* [c for c in parent_b.codons if c not in offspring_codons]
UniqueB(a_codons, b_codons) == SelectSeq(b_codons, LAMBDA c : c \notin Range(a_codons))

\* int(len(unique_b_codons) * self.crossover_rate)
NumToInherit(len) == (len * CrossoverRate) \div 100

\* random.sample(population, k): k elements at distinct positions, any order
Samples(population, k) ==
  {[i \in 1..k |-> population[f[i]]] :
     f \in {g \in [1..k -> DOMAIN population] : \A i, j \in 1..k : i # j => g[i] # g[j]}}

\* mutant: a codon may mutate whatever the rate
MutateOptions_IgnoreRate(codon, mutation_rate) ==
  IF codon \in DOMAIN CodonMutations
  THEN {codon} \cup Range(CodonMutations[codon])
  ELSE {codon}

\* random.random() < self.mutation_rate never holds with rate 0; with a
\* positive rate the codon may stay or become any entry of its mutation list
MutateOptions(codon, mutation_rate) ==
  IF mutation_rate > 0 /\ codon \in DOMAIN CodonMutations
  THEN {codon} \cup Range(CodonMutations[codon])
  ELSE {codon}

\* the lists _mutate_codons can return
RECURSIVE MutateCodons(_, _)
MutateCodons(codons, mutation_rate) ==
  IF codons = <<>> THEN {<<>>}
  ELSE {<<h>> \o t : h \in MutateOptions(codons[1], mutation_rate),
                     t \in MutateCodons(Tail(codons), mutation_rate)}

\* (a + b) / 2 over zip(a, b), or the vector that is not empty
BlendVectors(vec_a, vec_b) ==
  IF vec_a # <<>> /\ vec_b # <<>>
  THEN [i \in 1..Min2(Len(vec_a), Len(vec_b)) |-> (vec_a[i] + vec_b[i]) \div 2]
  ELSE IF vec_a # <<>> THEN vec_a ELSE vec_b

\* offspring_id = f"offspring_{int(time.time() * 1000)}_{random.randint(100,999)}":
\* the millisecond of the call and a random suffix.  The names two calls in
\* one millisecond can draw, the suffix range cut down to two values.
OffspringIds == {<<"offspring", 1, 100>>, <<"offspring", 1, 101>>}

Offspring(offspring_id, parent_a, parent_b, new_concept, offspring_codons) ==
  [spore_id |-> offspring_id,
   dna_sequence |-> RenderDna(Join([i \in DOMAIN new_concept |-> <<new_concept[i]>>], ","),
                              [i \in DOMAIN offspring_codons |-> <<offspring_codons[i]>>]),
   core_concept |-> new_concept,
   codons |-> offspring_codons,
   frequency_vector |-> BlendVectors(parent_a.frequency_vector, parent_b.frequency_vector),
   energy_level |-> OffspringEnergy,
   parent_a_id |-> parent_a.spore_id,
   parent_b_id |-> parent_b.spore_id]

Reproduce(parent_a, parent_b, mutation_rate) ==
  /\ \E unique_b_codons \in {UniqueB(parent_a.codons, parent_b.codons)} :
     \E inherited_from_b \in Samples(unique_b_codons, NumToInherit(Len(unique_b_codons))) :
     \E offspring_codons \in MutateCodons(parent_a.codons \o inherited_from_b, mutation_rate) :
     \E offspring_id \in OffspringIds :
       ret' = [op |-> "reproduce", parent_a |-> parent_a, parent_b |-> parent_b,
               mutation_rate |-> mutation_rate,
               offspring |-> Offspring(offspring_id, parent_a, parent_b,
                                       SynthesizeConcept(parent_a.core_concept, parent_b.core_concept),
                                       offspring_codons)]
  /\ UNCHANGED <<store, dream_count, ingests, events, calls>>

(***************************************************************************)
(* The reproduction specification: one call on one pair of parents.        *)
(***************************************************************************)
WeaverCodons == {"E:SER", "T:STA", "T:LIN", "C:MOD"}

\* concepts and frequency vectors of the two parents
ParentProfiles ==
  { [concept_a |-> <<"tea">>, vector_a |-> <<>>, concept_b |-> <<"cup">>, vector_b |-> <<4, 8>>],
    [concept_a |-> <<"rain", "window">>, vector_a |-> <<2, 4>>, concept_b |-> <<"cup">>, vector_b |-> <<4, 8>>],
    [concept_a |-> <<"tea">>, vector_a |-> <<2, 4>>, concept_b |-> <<"shadow">>, vector_b |-> <<>>] }

ParentA(profile, codons) ==
  [spore_id |-> "a", core_concept |-> profile.concept_a, codons |-> codons,
   frequency_vector |-> profile.vector_a]

ParentB(profile, codons) ==
  [spore_id |-> "b", core_concept |-> profile.concept_b, codons |-> codons,
   frequency_vector |-> profile.vector_b]

InitWeaver ==
  /\ store = <<>>
  /\ dream_count = 0
  /\ ingests = 0
  /\ events = <<>>
  /\ calls = NoCalls
  /\ ret = [op |-> "none"]

\* mutation switched off: engine.mutation_rate = 0
ReproduceNoMutation ==
  Idle /\ \E profile \in ParentProfiles,
             a_codons \in SeqsUpTo(WeaverCodons, MaxCodonsA),
             b_codons \in SeqsUpTo(WeaverCodons, MaxCodonsB) :
    Reproduce(ParentA(profile, a_codons), ParentB(profile, b_codons), 0)

\* the engine as constructed, on parents of two codons each
ReproduceDefault ==
  Idle /\ \E profile \in ParentProfiles,
             a_codons \in [1..2 -> WeaverCodons],
             b_codons \in [1..2 -> WeaverCodons] :
    Reproduce(ParentA(profile, a_codons), ParentB(profile, b_codons), DefaultMutationRate)

NextWeaver == ReproduceNoMutation \/ ReproduceDefault

SpecWeaver == InitWeaver /\ [][NextWeaver]_vars

(***************************************************************************)
(* select_parents.  Similarities and scores are in hundredths; frequency   *)
(* vectors are integer vectors whose norm is an integer.                   *)
(***************************************************************************)
DefaultMinEnergy == 80
RelaxedPoolSize == 10
LinkBoost == 30
OverlapBonus == 10
InitialResonance == -100

Dot(vec1, vec2) ==
  LET RECURSIVE Sum(_)
      Sum(k) == IF k = 0 THEN 0 ELSE vec1[k] * vec2[k] + Sum(k - 1)
  IN Sum(Len(vec1))

\* math.sqrt of a sum of squares that is a perfect square
Norm(vec) == CHOOSE r \in 0..Dot(vec, vec) : r * r = Dot(vec, vec)

CosineSimilarity(vec1, vec2) ==
  IF vec1 = <<>> \/ vec2 = <<>> \/ Len(vec1) # Len(vec2) THEN 0
  ELSE IF Norm(vec1) = 0 \/ Norm(vec2) = 0 THEN 0
  ELSE (Dot(vec1, vec2) * 100) \div (Norm(vec1) * Norm(vec2))

\* sorted(spores, key=energy_level, reverse=True): a stable sort
ByEnergyDesc(spores) ==
  [k \in DOMAIN spores |->
     spores[CHOOSE i \in DOMAIN spores :
              Cardinality({j \in DOMAIN spores :
                             \/ spores[j].energy_level > spores[i].energy_level
                             \/ spores[j].energy_level = spores[i].energy_level /\ j < i}) = k - 1]]

\* the candidate pool: the spores of at least min_energy in list order, or
\* the ten of highest energy when fewer than two reach it
Candidates(spores, min_energy) ==
  IF Len(SelectSeq(spores, LAMBDA sp : sp.energy_level >= min_energy)) >= 2
  THEN SelectSeq(spores, LAMBDA sp : sp.energy_level >= min_energy)
  ELSE Take(ByEnergyDesc(spores), Min2(Len(spores), RelaxedPoolSize))

\* mutant: a synaptic link adds nothing to the score
TotalScore_NoLinkBoost(parent_a, candidate) ==
  (IF parent_a.frequency_vector # <<>> /\ candidate.frequency_vector # <<>>
   THEN CosineSimilarity(parent_a.frequency_vector, candidate.frequency_vector)
   ELSE 0)
  + Cardinality(Range(parent_a.codons) \cap Range(candidate.codons)) * OverlapBonus

\* total_score = similarity (+ 0.3 if linked) + 0.1 per shared codon
TotalScore(parent_a, candidate) ==
  (IF parent_a.frequency_vector # <<>> /\ candidate.frequency_vector # <<>>
   THEN CosineSimilarity(parent_a.frequency_vector, candidate.frequency_vector)
   ELSE 0)
  + (IF candidate.spore_id \in Range(parent_a.synaptic_links) THEN LinkBoost ELSE 0)
  + Cardinality(Range(parent_a.codons) \cap Range(candidate.codons)) * OverlapBonus

\* mutant: any candidate of the best score
ParentBChoices_AnyBest(candidates) ==
  {k \in 2..Len(candidates) :
     /\ TotalScore(candidates[1], candidates[k]) > InitialResonance
     /\ \A j \in 2..Len(candidates) :
          TotalScore(candidates[1], candidates[j]) <= TotalScore(candidates[1], candidates[k])}

\* the positions in candidates the loop can end on: total_score is compared
\* with >, so it is the first candidate of the best score, if that score
\* exceeds the initial best_resonance
ParentBChoices(candidates) ==
  {k \in 2..Len(candidates) :
     /\ TotalScore(candidates[1], candidates[k]) > InitialResonance
     /\ \A j \in 2..Len(candidates) :
          TotalScore(candidates[1], candidates[j]) <= TotalScore(candidates[1], candidates[k])
     /\ \A j \in 2..(k - 1) :
          TotalScore(candidates[1], candidates[j]) < TotalScore(candidates[1], candidates[k])}

\* what a call of select_parents can return
SelectParentsOutcomes(spores, min_energy) ==
  IF Len(Candidates(spores, min_energy)) < 2 \/ ParentBChoices(Candidates(spores, min_energy)) = {}
  THEN {[none |-> TRUE]}
  ELSE {[none |-> FALSE,
         parent_a |-> Candidates(spores, min_energy)[1],
         parent_b |-> Candidates(spores, min_energy)[k]] :
          k \in ParentBChoices(Candidates(spores, min_energy))}

\* two calls on the same list with the same min_energy
SelectParents(spores, min_energy) ==
  /\ \E first \in SelectParentsOutcomes(spores, min_energy),
        second \in SelectParentsOutcomes(spores, min_energy) :
       ret' = [op |-> "select", spores |-> spores, min_energy |-> min_energy,
               candidates |-> Candidates(spores, min_energy),
               first |-> first, second |-> second]
  /\ UNCHANGED <<store, dream_count, ingests, events, calls>>

(***************************************************************************)
(* The reproduction log: log_reproduction, update_fitness_score,           *)
(* analyze_successful_patterns, anticipatory_synthesis.  events is the     *)
(* reproduction_events table in insertion order.                           *)
(***************************************************************************)
BirthEnergy == 50
MinExamples == 2
SignificantRate == 30
HighEnergy == 60

LogReproduction(parent_a, parent_b, offspring) ==
  /\ events' = Append(events,
       [parent_a_id |-> parent_a.spore_id,
        parent_b_id |-> parent_b.spore_id,
        offspring_id |-> offspring.spore_id,
        parent_a_codons |-> parent_a.codons,
        parent_b_codons |-> parent_b.codons,
        offspring_codons |-> offspring.codons,
        fitness_score |-> 0])
  /\ ret' = [op |-> "log", offspring_id |-> offspring.spore_id]
  /\ UNCHANGED <<store, dream_count, ingests, calls>>

\* UPDATE reproduction_events SET fitness_score = ? WHERE offspring_id = ?
UpdateFitnessScore(spore_id, current_energy, birth_energy) ==
  /\ events' = [i \in DOMAIN events |->
                  IF events[i].offspring_id = spore_id
                  THEN [events[i] EXCEPT !.fitness_score = current_energy - birth_energy]
                  ELSE events[i]]
  /\ ret' = [op |-> "fitness", spore_id |-> spore_id,
             current_energy |-> current_energy, birth_energy |-> birth_energy,
             fitness |-> current_energy - birth_energy]
  /\ UNCHANGED <<store, dream_count, ingests, calls>>

\* WHERE fitness_score > 0 ORDER BY fitness_score DESC: the orders in which
\* the rows can come; rows of equal fitness come in any order
RowOrders(ev) ==
  LET good == {i \in DOMAIN ev : ev[i].fitness_score > 0}
  IN {r \in [1..Cardinality(good) -> good] :
        /\ \A j, k \in DOMAIN r : j # k => r[j] # r[k]
        /\ \A k \in 1..(Len(r) - 1) : ev[r[k]].fitness_score >= ev[r[k + 1]].fitness_score}

\* for codon_a in parent_a_codons: for codon_b in parent_b_codons
RowPairs(event) ==
  [k \in 1..(Len(event.parent_a_codons) * Len(event.parent_b_codons)) |->
     [codon_a |-> event.parent_a_codons[((k - 1) \div Len(event.parent_b_codons)) + 1],
      codon_b |-> event.parent_b_codons[((k - 1) % Len(event.parent_b_codons)) + 1],
      fitness |-> event.fitness_score]]

RECURSIVE AllPairs(_, _)
AllPairs(ev, rows) ==
  IF rows = <<>> THEN <<>> ELSE RowPairs(ev[Head(rows)]) \o AllPairs(ev, Tail(rows))

SamePattern(p, q) == p.codon_a = q.codon_a /\ p.codon_b = q.codon_b

\* successful_patterns, a dictionary: one entry per pattern, in the order of
\* first appearance, with the number and the sum of its fitness values
SuccessfulPatterns(pairs) ==
  LET firsts == {i \in DOMAIN pairs : \A j \in 1..(i - 1) : ~SamePattern(pairs[j], pairs[i])}
      nth(k) == CHOOSE i \in firsts : Cardinality({j \in firsts : j < i}) = k - 1
      RECURSIVE Sum(_, _)
      Sum(p, k) == IF k = 0 THEN 0
                   ELSE (IF SamePattern(pairs[k], p) THEN pairs[k].fitness ELSE 0) + Sum(p, k - 1)
  IN [k \in 1..Cardinality(firsts) |->
        [codon_a |-> pairs[nth(k)].codon_a,
         codon_b |-> pairs[nth(k)].codon_b,
         count |-> Cardinality({j \in DOMAIN pairs : SamePattern(pairs[j], pairs[nth(k)])}),
         total |-> Sum(pairs[nth(k)], Len(pairs))]]

\* pattern_scores: the patterns with at least 2 examples; the average fitness
\* of an entry is total / count
AnalyzeSuccessfulPatterns(ev, rows) ==
  SelectSeq(SuccessfulPatterns(AllPairs(ev, rows)), LAMBDA p : p.count >= MinExamples)

\* max(patterns.items(), key=average): the first entry of the greatest average
BestPattern(patterns) ==
  patterns[CHOOSE k \in DOMAIN patterns :
             /\ \A j \in DOMAIN patterns :
                  patterns[j].total * patterns[k].count <= patterns[k].total * patterns[j].count
             /\ \A j \in 1..(k - 1) :
                  patterns[j].total * patterns[k].count < patterns[k].total * patterns[j].count]

\* max(candidates, key=energy_level): the first spore of the greatest energy
MaxEnergy(candidates) ==
  candidates[CHOOSE k \in DOMAIN candidates :
               /\ \A j \in DOMAIN candidates : candidates[j].energy_level <= candidates[k].energy_level
               /\ \A j \in 1..(k - 1) : candidates[j].energy_level < candidates[k].energy_level]

Holders(spores, codon) ==
  SelectSeq(spores, LAMBDA sp : codon \in Range(sp.codons) /\ sp.energy_level > HighEnergy)

NoOffspring(spores, patterns) ==
  [op |-> "anticipatory", none |-> TRUE, spores |-> spores, patterns |-> patterns]

AnticipatorySynthesis(spores, mutation_rate) ==
  /\ \E rows \in RowOrders(events) :
     \E patterns \in {AnalyzeSuccessfulPatterns(events, rows)} :
       IF patterns = <<>>
       THEN ret' = NoOffspring(spores, patterns)
       ELSE \E best \in {BestPattern(patterns)} :
            IF best.total < SignificantRate * best.count
            THEN ret' = NoOffspring(spores, patterns)
            ELSE IF Holders(spores, best.codon_a) = <<>> \/ Holders(spores, best.codon_b) = <<>>
            THEN ret' = NoOffspring(spores, patterns)
            ELSE \E parent_a \in {MaxEnergy(Holders(spores, best.codon_a))},
                    parent_b \in {MaxEnergy(Holders(spores, best.codon_b))} :
                 IF parent_a.spore_id = parent_b.spore_id
                 THEN ret' = NoOffspring(spores, patterns)
                 ELSE \E unique_b_codons \in {UniqueB(parent_a.codons, parent_b.codons)} :
                      \E inherited_from_b \in
                           Samples(unique_b_codons, NumToInherit(Len(unique_b_codons))) :
                      \E offspring_codons \in
                           MutateCodons(parent_a.codons \o inherited_from_b, mutation_rate) :
                      \E offspring_id \in OffspringIds :
                        ret' = [op |-> "anticipatory", none |-> FALSE, spores |-> spores,
                                patterns |-> patterns,
                                parent_a |-> parent_a, parent_b |-> parent_b,
                                offspring |-> Offspring(offspring_id, parent_a, parent_b,
                                    SynthesizeConcept(parent_a.core_concept, parent_b.core_concept),
                                    offspring_codons)]
  /\ UNCHANGED <<store, dream_count, ingests, events, calls>>

(***************************************************************************)
(* The evolution specification: parent selection, reproduction, logging,   *)
(* fitness updates and anticipatory synthesis over a small population.     *)
(***************************************************************************)
MaxEvents == 2
MaxSpores == 3

Spore(id, concept, codons, vec, energy, links) ==
  [spore_id |-> id, core_concept |-> concept, codons |-> codons,
   frequency_vector |-> vec, energy_level |-> energy, synaptic_links |-> links]

EvolutionSpores ==
  { Spore("s1", <<"rain", "window">>, <<"C:MOD", "S:VIS">>, <<2, 0>>, 100, <<"s2">>),
    Spore("s2", <<"tea">>, <<"S:VIS">>, <<0, 2>>, 70, <<>>),
    Spore("s3", <<"cup">>, <<"C:MOD">>, <<0, 2>>, 60, <<>>),
    Spore("s4", <<"shadow">>, <<"C:MOD">>, <<>>, 90, <<"s1">>) }

Populations ==
  {p \in SeqsUpTo(EvolutionSpores, MaxSpores) : \A j, k \in DOMAIN p : j # k => p[j] # p[k]}

\* the populations handed to anticipatory_synthesis
SynthesisPopulations ==
  {p \in Populations :
     [k \in DOMAIN p |-> p[k].spore_id] \in
       {<<>>, <<"s1">>, <<"s1", "s2">>, <<"s2", "s1">>, <<"s4", "s2">>, <<"s3", "s2">>}}

\* eleven spores below every min_energy, the weakest first in the list: it
\* shares two codons with the strongest ("c01"), the others one or none
CrowdedPopulation ==
  [k \in 1..(RelaxedPoolSize + 1) |->
     IF k = 1
     THEN Spore("c11", <<"last">>, <<"C:MOD", "S:VIS">>, <<>>, 40, <<>>)
     ELSE Spore(<<"c01", "c02", "c03", "c04", "c05", "c06", "c07", "c08", "c09", "c10">>[k - 1],
                <<"crowd">>,
                IF k = 2 THEN <<"C:MOD", "S:VIS">>
                ELSE IF k = 6 THEN <<"S:VIS">> ELSE <<"E:JOY">>,
                <<>>, 60 - k, <<>>)]

\* the lists handed to select_parents
SelectPopulations == Populations \cup {CrowdedPopulation}

\* select_parents reads nothing but its arguments: it is called on the new engine
EvolveSelect ==
  /\ events = <<>>
  /\ calls = NoCalls
  /\ \E spores \in SelectPopulations, min_energy \in {DefaultMinEnergy, HighEnergy} :
       SelectParents(spores, min_energy)

EvolveReproduce ==
  \E pair \in {p \in Populations : [k \in DOMAIN p |-> p[k].spore_id] \in
                  {<<"s1", "s2">>, <<"s2", "s1">>, <<"s1", "s3">>}} :
    Reproduce(pair[1], pair[2], DefaultMutationRate)

\* the caller logs the offspring it has just been given
EvolveLog ==
  /\ Len(events) < MaxEvents
  /\ ret.op \in {"reproduce", "anticipatory"}
  /\ ret.op = "anticipatory" => ~ret.none
  /\ LogReproduction(ret.parent_a, ret.parent_b, ret.offspring)

EvolveFitness ==
  \E i \in DOMAIN events, current_energy \in {80, 90}, birth_energy \in {BirthEnergy, 40} :
    UpdateFitnessScore(events[i].offspring_id, current_energy, birth_energy)

EvolveAnticipate ==
  \E spores \in SynthesisPopulations : AnticipatorySynthesis(spores, DefaultMutationRate)

NextEvolution ==
  EvolveSelect \/ EvolveReproduce \/ EvolveLog \/ EvolveFitness \/ EvolveAnticipate

SpecEvolution == InitWeaver /\ [][NextEvolution]_vars

(***************************************************************************)
(* timeline and memory_dream_impl.                                         *)
(***************************************************************************)
MinDreamRecords == 2

\* if project and meta.get("project") != project: continue
\* ("none" stands for no project: None or the empty string)
Eligible(st, project) ==
  {i \in DOMAIN st : project = "none" \/ st[i].project = project}

\* mutant: oldest first
Newer_Ascending(st, i, j) ==
  \/ st[i].timestamp < st[j].timestamp
  \/ st[i].timestamp = st[j].timestamp /\ i < j

\* memories.sort(key=timestamp, reverse=True): a stable sort, records of one
\* timestamp keep the order of collection.get()
Newer(st, i, j) ==
  \/ st[i].timestamp > st[j].timestamp
  \/ st[i].timestamp = st[j].timestamp /\ i < j

TimelineOrder(st, eligible) ==
  CHOOSE r \in
    { [k \in 1..Cardinality(eligible) |->
         CHOOSE i \in eligible : Cardinality({j \in eligible : Newer(st, j, i)}) = k - 1] :
      dummy \in {0} } : TRUE

\* the spore ids timeline(project, limit) returns, in order
TimelineRun(st, project, limit) ==
  IF st = <<>> THEN <<>>
  ELSE Take([k \in DOMAIN TimelineOrder(st, Eligible(st, project)) |->
               st[TimelineOrder(st, Eligible(st, project))[k]].id], limit)

Timeline(project, limit) ==
  /\ ret' = [op |-> "timeline", project |-> project, limit |-> limit,
             result |-> TimelineRun(store, project, limit)]
  /\ UNCHANGED <<store, dream_count, ingests, events, calls>>

\* mutant: only the empty store is skipped
MemoryDreamSkips_EmptyOnly(total) == total < 1

\* if total < 2: return {"status": "skipped", ..., "dreams": 0}
MemoryDreamSkips(total) == total < MinDreamRecords

\* memory_dream_impl(cortex): stats(), then dream_cycle() unless skipped
MemoryDream ==
  IF MemoryDreamSkips(Len(store))
  THEN /\ ret' = [op |-> "memory_dream", status |-> "skipped", dreams |-> 0,
                  has_cluster |-> FALSE, cluster |-> {}]
       /\ UNCHANGED <<store, dream_count, ingests, events, calls>>
  ELSE IF Len(store) < 2
       THEN /\ ret' = [op |-> "memory_dream", status |-> "completed", dreams |-> dream_count,
                       has_cluster |-> TRUE, cluster |-> {}]
            /\ UNCHANGED <<store, dream_count, ingests, events, calls>>
       ELSE /\ dream_count < MaxDreams
            /\ store' = DreamStore(store)
            /\ dream_count' = dream_count + 1
            /\ ret' = [op |-> "memory_dream", status |-> "completed",
                       dreams |-> dream_count + 1,
                       has_cluster |-> TRUE, cluster |-> DreamCluster(store)]
            /\ UNCHANGED <<ingests, events, calls>>

(***************************************************************************)
(* The service specification: ingests, dream cycles, recalls and timeline  *)
(* calls in any order, from the empty store.                               *)
(***************************************************************************)
MaxServiceIngests == 3
MaxServiceDreams == 2

ServiceNow == RecentWindow + 2500

ServiceOracleCalls ==
  { [ok |-> FALSE, reply |-> AnyReply],
    [ok |-> TRUE, reply |-> [project |-> "ai2ai", topic |-> "crash", activity |-> "none",
                             time_hint |-> "any", refined_query |-> 1]] }

ServiceIngest == ingests < MaxServiceIngests /\ Ingest

ServiceDream == dream_count < MaxServiceDreams /\ DreamCycle

ServiceMemoryDream == dream_count < MaxServiceDreams /\ MemoryDream

ServiceSmart ==
  \E n \in {1, 2}, oracle \in ServiceOracleCalls, fails \in BOOLEAN :
    SmartRecall(0, n, ServiceNow, oracle, [k \in 1..3 |-> fails /\ k = 1],
                [ok |-> FALSE, scores |-> "none"])

ServiceBasic == \E n \in {1, 2} : BasicRecall(0, n, FALSE)

ServiceTimeline ==
  \E project \in {"none", "ai2ai", "neo-console"}, limit \in {0, 1, 2, FetchCap} :
    Timeline(project, limit)

NextService ==
  ServiceIngest \/ ServiceDream \/ ServiceMemoryDream
    \/ ServiceSmart \/ ServiceBasic \/ ServiceTimeline

SpecService == Init /\ [][NextService]_vars

(***************************************************************************)
(* Claims about the store.                                                 *)
(***************************************************************************)

\* C1: from the empty store, after any sequence of ingest and dream_cycle
\* calls every stored record's energy is within [0.05, 1.0].
C1_EnergyBounds ==
  \A i \in DOMAIN store : store[i].energy >= 5 /\ store[i].energy <= 100

\* a dream cycle has run, one record sits on the floor and one on the ceiling
C1_Witness ==
  /\ ret.op = "dream"
  /\ dream_count > 0
  /\ \E i \in DOMAIN store : store[i].energy = 5
  /\ \E i \in DOMAIN store : store[i].energy = 100

\* C2: one dream_cycle on a store with at least 2 records leaves every
\* record of the returned cluster with an energy >= its pre-cycle energy and
\* every record outside the cluster with an energy <= its pre-cycle energy.
C2_ClusterReinforcement ==
  [][ dream_count' = dream_count + 1 =>
        /\ Len(store) >= 2
        /\ DOMAIN store' = DOMAIN store
        /\ \A i \in DOMAIN store :
              /\ store[i].id \in ret'.cluster => store'[i].energy >= store[i].energy
              /\ store[i].id \notin ret'.cluster => store'[i].energy <= store[i].energy
    ]_vars

\* a cycle returned a cluster of the seed and a linked record, a third
\* record was outside it, and energies moved both ways
C2_Witness ==
  /\ ret.op = "dream"
  /\ ~ret.skipped
  /\ Cardinality(ret.cluster) >= 2
  /\ \E i \in DOMAIN store : store[i].id \notin ret.cluster /\ store[i].energy < 100
  /\ \E i \in DOMAIN store :
        /\ store[i].id \in ret.cluster
        /\ store[i].energy < 100
        /\ store[i].energy > 100 - DreamDecay * dream_count

(***************************************************************************)
(* Claims about recall.                                                    *)
(***************************************************************************)
NoStoreErrors == [k \in 1..3 |-> FALSE]

Unfiltered(analysis) ==
  [analysis EXCEPT !.project = "none", !.activity = "none", !.time_hint = "any"]

\* C3: when the filter built from the analysis matches fewer than 2 records
\* (zero included), smart recall uses the candidates of the unfiltered query
\* with the same embedding and candidate count, and returns what the
\* unfiltered call returns.
C3_FilterFallback ==
  ( /\ ret.op = "smart"
    /\ ~ret.raised
    /\ ret.where # <<>>
    /\ Cardinality(Matching(store, ret.where)) < 2 )
  => /\ ret.candidates =
          QueryIds(store, Embed(ret.analysis.refined_query), Min2(ret.n * 3, 20), <<>>)
     /\ ret.result =
          SmartRecallRun(store, ret.query, ret.n, ret.now,
                         [ok |-> TRUE, reply |-> Unfiltered(ret.analysis)],
                         NoStoreErrors, ret.rr).result

\* the filter matched nothing in a store of several records and the call
\* still returned records, after a second, unfiltered query
C3_Witness ==
  /\ ret.op = "smart"
  /\ ~ret.raised
  /\ ret.where # <<>>
  /\ Matching(store, ret.where) = {}
  /\ Len(ret.queries) = 2
  /\ ~ret.queries[2].filtered
  /\ Len(ret.result) >= 2

\* C4: a smart recall queries the store at most twice, and exactly once when
\* no filter was built, whatever store errors and short results occur.
C4_AtMostOneRetry ==
  ret.op = "smart" =>
    /\ Len(ret.queries) <= 2
    /\ ret.where = <<>> => Len(ret.queries) = 1

\* C5: if the unfiltered retry of a smart recall fails with a store error,
\* the caller gets an empty result set and no exception.
C5_RetryFailureGivesEmpty ==
  /\ ( ret.op = "smart" /\ Len(ret.queries) >= 2 /\ ret.queries[2].raised )
       => ( ~ret.raised /\ ret.result = <<>> )
  /\ ( ret.op = "memory_query" /\ Len(ret.queries) >= 2 /\ ret.queries[2].raised )
       => ( ~ret.raised /\ ret.count = 0 )

\* C6: with the oracle failing on every call, smart recall uses the raw
\* query with no filter, keeps the vector-similarity order, does not fail,
\* and returns the same records in the same order as basic recall(q, n).
C6_OracleDownEqualsBasic ==
  ( /\ ret.op = "smart"
    /\ ret.analysis_failed
    /\ ~ret.rr.ok
    /\ \A k \in DOMAIN ret.queries : ~ret.queries[k].raised )
  => /\ ~ret.raised
     /\ ret.where = <<>>
     /\ ret.analysis.refined_query = ret.query
     /\ ret.analysis.time_hint = "any"
     /\ ret.result = BasicRecallRun(store, ret.query, ret.n, FALSE).result

(***************************************************************************)
(* Claims about the DNA codec.                                             *)
(***************************************************************************)
BagOfCodons(codons) ==
  [c \in Range(codons) |-> Cardinality({i \in DOMAIN codons : codons[i] = c})]

\* C7: for every sequence parse_dna_sequence accepts, the rendering of the
\* parsed result is accepted too and has the same concept and the same
\* multiset of codons.
C7_RoundTrip ==
  ret.op = "render" =>
    /\ ret.reparsed.ok
    /\ ret.reparsed.core_concept = ret.parsed.core_concept
    /\ BagOfCodons(ret.reparsed.codons) = BagOfCodons(ret.parsed.codons)

IsWord(token) == token # <<>> /\ \A i \in DOMAIN token : token[i] \notin {"(", ")", "{", "}", "|", ",", " ", ":"}

DefaultPair == << <<"C:SNG">>, <<"T:STA">> >>

BuiltCodons(analysis) == IF analysis.codons = <<>> THEN DefaultPair ELSE analysis.codons

WholeShape(s, p) ==
  /\ s[1] = "("
  /\ s[p] = ")"
  /\ \A i \in 2..(p - 1) : s[i] # ")"
  /\ Len(s) >= p + 5
  /\ s[p + 1] = ":" /\ s[p + 2] = ":" /\ s[p + 3] = "{"
  /\ s[Len(s)] = "}"
  /\ \A i \in (p + 4)..(Len(s) - 1) : s[i] # "}"

\* C9: parse_dna_sequence returns a result exactly for the strings whose
\* whole text has the shape (concept)::{codon|...}, and the result holds the
\* concept and the codons split on "|" in order and unchanged.
C9_WholeShapeOnly ==
  ret.op = "parse" =>
    /\ ret.parsed.ok <=> \E p \in 3..Len(ret.sequence) : WholeShape(ret.sequence, p)
    /\ \A p \in 3..Len(ret.sequence) :
         (ret.parsed.ok /\ WholeShape(ret.sequence, p)) =>
           /\ ret.parsed.core_concept = SubSeq(ret.sequence, 2, p - 1)
           /\ ret.parsed.codons =
                Split(SubSeq(ret.sequence, p + 4, Len(ret.sequence) - 1), "|")

(***************************************************************************)
(* Claims about reproduction.                                              *)
(***************************************************************************)
\* C10: with mutation rate 0 the offspring codons contain every codon of
\* parent A and only codons of A or B; parents {E:SER,T:STA} and
\* {E:SER,T:LIN,C:MOD} give a superset of {E:SER,T:STA} and a subset of
\* {E:SER,T:STA,T:LIN,C:MOD}.
C10_CrossoverCompleteness ==
  ( ret.op = "reproduce" /\ ret.mutation_rate = 0 )
  => /\ Range(ret.parent_a.codons) \subseteq Range(ret.offspring.codons)
     /\ Range(ret.offspring.codons) \subseteq
          Range(ret.parent_a.codons) \cup Range(ret.parent_b.codons)
     /\ ( /\ ret.parent_a.codons = <<"E:SER", "T:STA">>
          /\ ret.parent_b.codons = <<"E:SER", "T:LIN", "C:MOD">> )
        => /\ {"E:SER", "T:STA"} \subseteq Range(ret.offspring.codons)
           /\ Range(ret.offspring.codons) \subseteq {"E:SER", "T:STA", "T:LIN", "C:MOD"}

\* the parents of the example, with one of B's two new codons inherited
C10_Witness ==
  /\ ret.op = "reproduce"
  /\ ret.mutation_rate = 0
  /\ ret.parent_a.codons = <<"E:SER", "T:STA">>
  /\ ret.parent_b.codons = <<"E:SER", "T:LIN", "C:MOD">>
  /\ ret.offspring.codons = <<"E:SER", "T:STA", "C:MOD">>

(***************************************************************************)
(* Claims about record ids and synaptic links.                             *)
(***************************************************************************)
\* the record was created by the ingest of this turn
FromTurn(rec, turn) ==
  /\ rec.session_id = turn.session
  /\ rec.turn_number = turn.turn_number
  /\ rec.timestamp = turn.timestamp

\* C13: the ingest of a turn that has no record yet creates a record under
\* an id no stored record has: the store grows by one and every record it
\* held stays as it was.
C13_FreshId ==
  [][ ( /\ ret'.op = "ingest"
        /\ ingests' = ingests + 1
        /\ \A i \in DOMAIN store : ~FromTurn(store[i], ret'.turn) )
      => /\ ret'.id \notin Ids(store)
         /\ Len(store') = Len(store) + 1
         /\ \A i \in DOMAIN store : store'[i] = store[i] ]_vars

\* C14: in every reachable state each record's synaptic_links holds at most
\* 2 ids, no id twice, and never the record's own id.
C14_LinksWellFormed ==
  \A i \in DOMAIN store :
    /\ Len(store[i].links) <= 2
    /\ \A j, k \in DOMAIN store[i].links : j # k => store[i].links[j] # store[i].links[k]
    /\ store[i].id \notin Range(store[i].links)

\* a record with two links in a store of three records
C14_Witness ==
  /\ Len(store) = 3
  /\ \E i \in DOMAIN store : Len(store[i].links) = 2

\* C15: the synaptic_links of a stored record change only in an ingest of
\* the record's own turn; no other step changes them and no record is lost.
C15_LinksWrittenOnce ==
  [][ \A i \in DOMAIN store :
        /\ i \in DOMAIN store'
        /\ store'[i].links # store[i].links
             => ( ret'.op = "ingest" /\ ingests' = ingests + 1
                  /\ FromTurn(store[i], ret'.turn) ) ]_vars

(***************************************************************************)
(* Claims about the service operations.                                    *)
(***************************************************************************)
\* C16: energy is changed only by a dream cycle: an ingest gives the record
\* it adds energy 1.0 and changes no stored record's energy, and a recall
\* (basic or smart) changes nothing that is stored.
C16_EnergyFrame ==
  [][ /\ \A i \in DOMAIN store :
           /\ i \in DOMAIN store'
           /\ store'[i].energy # store[i].energy
                => ( ret'.op \in {"dream", "memory_dream"} /\ dream_count' = dream_count + 1 )
      /\ \A i \in DOMAIN store' \ DOMAIN store :
           ret'.op = "ingest" /\ store'[i].energy = 100
      /\ ret'.op = "ingest" => \A i \in DOMAIN store : store'[i].energy = store[i].energy
      /\ ret'.op \in {"smart", "basic"} => store' = store /\ dream_count' = dream_count ]_vars

\* a smart recall that returned records from a store whose energies a dream
\* cycle has moved apart
C16_Witness ==
  /\ ret.op = "smart"
  /\ ret.result # <<>>
  /\ dream_count > 0
  /\ \E i, j \in DOMAIN store : store[i].energy < 100 /\ store[j].energy = 100

\* C17: a dream cycle on fewer than 2 records changes no record and not the
\* dream counter and returns no cluster; memory_dream_impl reports status
\* skipped with dreams 0.
C17_DreamSkipped ==
  [][ ( Len(store) < 2 /\ ret'.op \in {"dream", "memory_dream"} )
      => /\ store' = store
         /\ dream_count' = dream_count
         /\ ret'.cluster = {}
         /\ ret'.op = "dream" => ret'.skipped
         /\ ret'.op = "memory_dream"
              => ( ret'.status = "skipped" /\ ret'.dreams = 0 /\ ~ret'.has_cluster ) ]_vars

\* memory_dream_impl was called on a store of one record
C17_Witness ==
  /\ ret.op = "memory_dream"
  /\ ret.status = "skipped"
  /\ Len(store) = 1
  /\ dream_count = 0

TimestampOf(id) == store[IndexOf(store, id)].timestamp

EligibleIds(project) ==
  {store[i].id : i \in {j \in DOMAIN store : project = "none" \/ store[j].project = project}}

\* C18: timeline(project, limit) returns at most limit records, newest first,
\* they are the limit newest of the eligible records, and the eligible
\* records are those of the project, or all records when none is given.
C18_Timeline ==
  ret.op = "timeline" =>
    /\ Len(ret.result) = Min2(ret.limit, Cardinality(EligibleIds(ret.project)))
    /\ Range(ret.result) \subseteq EligibleIds(ret.project)
    /\ \A j, k \in DOMAIN ret.result : j # k => ret.result[j] # ret.result[k]
    /\ \A k \in 1..(Len(ret.result) - 1) :
         TimestampOf(ret.result[k]) >= TimestampOf(ret.result[k + 1])
    /\ \A id \in EligibleIds(ret.project) \ Range(ret.result) :
         \A k \in DOMAIN ret.result : TimestampOf(id) <= TimestampOf(ret.result[k])

\* two records of the project are stored, the older one first, and a
\* timeline of limit 1 returned the newer one
C18_Witness ==
  /\ ret.op = "timeline"
  /\ ret.project = "ai2ai"
  /\ ret.limit = 1
  /\ Len(store) = 3
  /\ \E i, j \in DOMAIN store :
       /\ i < j
       /\ store[i].project = "ai2ai" /\ store[j].project = "ai2ai"
       /\ store[i].timestamp < store[j].timestamp
       /\ ret.result = <<store[j].id>>

(***************************************************************************)
(* Claims about parent selection and the reproduction log.                 *)
(***************************************************************************)
\* C11: two calls of select_parents with the same record list and the same
\* min_energy return the same pair, or both return none.
C11_SelectDeterministic ==
  ret.op = "select" => ret.first = ret.second

\* a pair was returned from a pool in which two candidates tie for the best
\* resonance with parent A
C11_Witness ==
  /\ ret.op = "select"
  /\ ~ret.first.none
  /\ Len(ret.candidates) = 3
  /\ TotalScore(ret.candidates[1], ret.candidates[2])
       = TotalScore(ret.candidates[1], ret.candidates[3])
  /\ ret.first.parent_b = ret.candidates[2]

\* C12: when select_parents returns a pair (A, B), no record of the
\* candidate pool has energy strictly greater than A's.
C12_ParentAMaxEnergy ==
  ( ret.op = "select" /\ ~ret.first.none )
  => \A k \in DOMAIN ret.candidates :
       ret.candidates[k].energy_level <= ret.first.parent_a.energy_level

\* C19: every offspring returned by reproduce, directly or through
\* anticipatory_synthesis, has an event in the log with its id and the ids of
\* its two parents.
C19_OffspringLogged ==
  ( ret.op = "reproduce" \/ (ret.op = "anticipatory" /\ ~ret.none) )
  => \E i \in DOMAIN events :
       /\ events[i].offspring_id = ret.offspring.spore_id
       /\ events[i].parent_a_id = ret.parent_a.spore_id
       /\ events[i].parent_b_id = ret.parent_b.spore_id

\* a pattern qualifies: there is one, and the best average exceeds 0.3
PatternQualifies(patterns) ==
  /\ patterns # <<>>
  /\ BestPattern(patterns).total > 30 * BestPattern(patterns).count

\* record j holds codon_a, another record k holds codon_b, both above 0.6
DisjointPair(spores, j, k, best) ==
  /\ spores[j].spore_id # spores[k].spore_id
  /\ spores[j].energy_level > 60 /\ spores[k].energy_level > 60
  /\ best.codon_a \in Range(spores[j].codons)
  /\ best.codon_b \in Range(spores[k].codons)

\* C20: anticipatory_synthesis returns none only if no pattern qualifies or
\* no two distinct records above 0.6 hold the two codons of the best pattern;
\* otherwise the parents it reproduces are two such records.
C20_NoneOnlyWithoutCandidates ==
  ret.op = "anticipatory" =>
    /\ ret.none =>
         \/ ~PatternQualifies(ret.patterns)
         \/ ~\E j, k \in DOMAIN ret.spores :
               DisjointPair(ret.spores, j, k, BestPattern(ret.patterns))
    /\ ~ret.none =>
         \E j, k \in DOMAIN ret.spores :
           /\ DisjointPair(ret.spores, j, k, BestPattern(ret.patterns))
           /\ ret.parent_a = ret.spores[j]
           /\ ret.parent_b = ret.spores[k]

(***************************************************************************)
(* Claims about the ingest pipeline.                                       *)
(***************************************************************************)
\* the step is an ingest of a turn whose id the store does not hold yet
FreshIngest == ret'.op = "ingest" /\ ingests' = ingests + 1 /\ SporeId(ret'.turn) \notin Ids(store)

ClassificationLost(call) == ~call.use_groq \/ ~call.ext.oracle.key \/ ~call.ext.oracle.classify.ok

CompilationFailed(call) == call.use_groq /\ (~call.ext.oracle.key \/ ~call.ext.oracle.compile.ok)

\* C21: an ingest whose embedding and store calls work never fails because
\* of the oracle: it returns the new id and the store grows by one record;
\* when classification failed or was skipped the record has project
\* general, topic unknown, activity discussion; when the DNA compilation
\* failed the record's dna is one that parse_dna_sequence accepts.
C21_OracleFailureHarmless ==
  [][ (FreshIngest /\ ret'.ext.embed_ok /\ ret'.ext.query_ok)
        => /\ ~ret'.raised
           /\ ret'.id = SporeId(ret'.turn)
           /\ Len(store') = Len(store) + 1
           /\ store'[Len(store')].id = ret'.id
           /\ ClassificationLost(ret')
                => /\ store'[Len(store')].project = "general"
                   /\ store'[Len(store')].topic = "unknown"
                   /\ store'[Len(store')].activity = "discussion"
           /\ CompilationFailed(ret') => ParseDnaSequence(store'[Len(store')].dna).ok ]_vars

\* C28: an ingest never fails because the embedding service or the
\* neighbour query fails: the call does not raise and no record is left
\* behind by a call that did not complete.
C28_ExternalFailureHarmless ==
  [][ (FreshIngest /\ (~ret'.ext.embed_ok \/ ~ret'.ext.query_ok))
        => /\ ~ret'.raised
           /\ ret'.id = SporeId(ret'.turn)
           /\ Len(store') = Len(store) + 1 ]_vars

(***************************************************************************)
(* Claims about the dream cycle.                                           *)
(***************************************************************************)
\* the step is a dream cycle that ran on at least 2 records
CycleRan == ret'.op = "dream" /\ ~ret'.skipped /\ dream_count' = dream_count + 1

\* C22: a dream cycle on at least 2 records takes as seed a record of
\* maximal energy, returns cluster = {seed} united with the seed's links,
\* and gives every record min(1.0, e + 0.1) if it is in the cluster and
\* max(0.05, e - 0.03) otherwise, e being its energy before the cycle.
C22_DreamStep ==
  [][ CycleRan =>
        /\ Len(store) >= 2
        /\ \E seed \in DOMAIN store :
              /\ \A j \in DOMAIN store : store[j].energy <= store[seed].energy
              /\ ret'.cluster = {store[seed].id} \cup {store[seed].links[k] : k \in DOMAIN store[seed].links}
        /\ DOMAIN store' = DOMAIN store
        /\ \A i \in DOMAIN store :
              store'[i].energy =
                IF store[i].id \in ret'.cluster
                THEN (IF store[i].energy + 10 < 100 THEN store[i].energy + 10 ELSE 100)
                ELSE (IF store[i].energy - 3 > 5 THEN store[i].energy - 3 ELSE 5)
    ]_vars

\* a cycle whose seed had a link: the linked record is held at the ceiling
\* while a record outside the cluster has come down to the floor
C22_Witness ==
  /\ ret.op = "dream"
  /\ ~ret.skipped
  /\ Cardinality(ret.cluster) = 2
  /\ \E i \in 2..Len(store) : store[i].id \in ret.cluster /\ store[i].energy = 100
  /\ \E i \in DOMAIN store : store[i].id \notin ret.cluster /\ store[i].energy = 5

\* C23: under repeated dream cycles a record that no cycle had in its
\* cluster never has energy 0 or less, is at exactly 0.05 once 32 cycles
\* have run, and stays there in every later cycle.
C23_StarvedToFloor ==
  ret.op = "dream" =>
    \A i \in DOMAIN store :
      store[i].id \notin ret.clusters =>
        /\ store[i].energy > 0
        /\ dream_count >= 32 => store[i].energy = 5
        /\ dream_count < 32 => store[i].energy > 5

\* 33 cycles have run and a record that was in none of the clusters is on
\* the floor
C23_Witness ==
  /\ ret.op = "dream"
  /\ dream_count = 33
  /\ \E i \in DOMAIN store : store[i].id \notin ret.clusters /\ store[i].energy = 5

(***************************************************************************)
(* Claims about the recall filter and re-ranking.                          *)
(***************************************************************************)
\* the records the conditions of the claim select, for one analysis
SelectedBy(st, analysis, now) ==
  {i \in DOMAIN st :
     /\ analysis.project # "none" => st[i].project = analysis.project
     /\ analysis.activity # "none" => st[i].activity = analysis.activity
     /\ analysis.time_hint = "recent" => st[i].timestamp >= now - 7 * 24 * 3600
     /\ analysis.time_hint = "old" => st[i].timestamp < now - 7 * 24 * 3600}

ConditionsPresent(analysis) ==
  (IF analysis.project # "none" THEN 1 ELSE 0)
    + (IF analysis.activity # "none" THEN 1 ELSE 0)
    + (IF analysis.time_hint \in {"recent", "old"} THEN 1 ELSE 0)

\* C24: the filter of a smart recall has one condition for each of: a
\* present project, a present activity, a recent or old time hint; it
\* selects exactly the records with that project, that activity and a
\* timestamp >= (recent) or < (old) call time minus 7 days; the topic adds
\* no condition; with no condition the first query is unfiltered.
C24_FilterConditions ==
  ret.op = "smart" =>
    /\ Len(ret.where) = ConditionsPresent(ret.analysis)
    /\ \A k \in DOMAIN ret.where : ret.where[k].field # "topic"
    /\ Matching(store, ret.where) = SelectedBy(store, ret.analysis, ret.now)
    /\ ret.queries[1].filtered <=> ConditionsPresent(ret.analysis) > 0

\* a recall with an activity and the recent hint: two conditions, which
\* keep the record that is exactly 7 days old and drop an older record of
\* the same activity
C24_Witness ==
  /\ ret.op = "smart"
  /\ Len(ret.where) = 2
  /\ ret.analysis.time_hint = "recent"
  /\ ret.analysis.activity # "none"
  /\ \E i \in Matching(store, ret.where) : store[i].timestamp = ret.now - RecentWindow
  /\ \E i \in DOMAIN store :
        /\ i \notin Matching(store, ret.where)
        /\ store[i].activity = ret.analysis.activity

\* position of a candidate in the vector-similarity order
CandidateIndex(id) == CHOOSE i \in DOMAIN ret.candidates : ret.candidates[i] = id

\* the relevance score the oracle gave a candidate
RelevanceOf(id) == ScoreAt(ret.rr.scores, CandidateIndex(id) - 1)

\* a goes before b: higher score, or equal score and earlier before
GoesBefore(a, b) ==
  \/ RelevanceOf(a) > RelevanceOf(b)
  \/ RelevanceOf(a) = RelevanceOf(b) /\ CandidateIndex(a) < CandidateIndex(b)

\* C25: after a successful re-ranking of at least 2 candidates, smart
\* recall returns the first n of the candidates in the order of descending
\* relevance score, equal scores in their vector-similarity order; with
\* fewer than 2 candidates the oracle is not asked and the candidates are
\* returned as they came.
C25_RerankOrder ==
  (ret.op = "smart" /\ ~ret.raised) =>
    /\ Len(ret.result) = Min2(ret.n, Len(ret.candidates))
    /\ (Len(ret.candidates) >= 2 /\ ret.rr.ok) =>
          /\ ret.reranked
          /\ \A k \in DOMAIN ret.result : ret.result[k] \in Range(ret.candidates)
          /\ \A k, l \in DOMAIN ret.result : k < l => GoesBefore(ret.result[k], ret.result[l])
          /\ \A id \in Range(ret.candidates) \ Range(ret.result) :
                \A k \in DOMAIN ret.result : GoesBefore(ret.result[k], id)
    /\ Len(ret.candidates) < 2 =>
          /\ ~ret.reranked
          /\ ret.result = Take(ret.candidates, ret.n)

\* the oracle scored the nearest candidate lowest and the others alike:
\* the call returns the second and third candidates, in that order
C25_Witness ==
  /\ ret.op = "smart"
  /\ ~ret.raised
  /\ ret.rr.ok
  /\ ret.rr.scores = "first_only"
  /\ Len(ret.candidates) >= 3
  /\ ret.n = 2
  /\ ret.result = <<ret.candidates[2], ret.candidates[3]>>

(***************************************************************************)
(* Claims about parent selection and fitness.                              *)
(***************************************************************************)
\* positions in spores of the candidate pool of the claim: the records of
\* at least min_energy, or the 10 of highest energy when fewer than 2
\* reach it
PoolOf(spores, min_energy) ==
  IF Cardinality({i \in DOMAIN spores : spores[i].energy_level >= min_energy}) >= 2
  THEN {i \in DOMAIN spores : spores[i].energy_level >= min_energy}
  ELSE {i \in DOMAIN spores :
          Cardinality({j \in DOMAIN spores :
                         \/ spores[j].energy_level > spores[i].energy_level
                         \/ spores[j].energy_level = spores[i].energy_level /\ j < i}) < 10}

\* score of the claim: cosine similarity to A, + 0.3 if A links to the
\* candidate, + 0.1 per codon shared with A
ScoreWith(a, c) ==
  CosineSimilarity(a.frequency_vector, c.frequency_vector)
    + (IF \E k \in DOMAIN a.synaptic_links : a.synaptic_links[k] = c.spore_id THEN 30 ELSE 0)
    + 10 * Cardinality({x \in Range(a.codons) : x \in Range(c.codons)})

\* C26: select_parents returns none for fewer than 2 records; a returned
\* pair (A, B) has B different from A, B in the candidate pool, and no
\* candidate of the pool other than A with a score strictly above B's.
C26_ParentBBestScore ==
  ret.op = "select" =>
    /\ Len(ret.spores) < 2 => ret.first.none
    /\ ~ret.first.none =>
          /\ ret.first.parent_b # ret.first.parent_a
          /\ \E i \in PoolOf(ret.spores, ret.min_energy) : ret.spores[i] = ret.first.parent_b
          /\ \A i \in PoolOf(ret.spores, ret.min_energy) :
                ret.spores[i] # ret.first.parent_a
                  => ScoreWith(ret.first.parent_a, ret.spores[i])
                       <= ScoreWith(ret.first.parent_a, ret.first.parent_b)

\* the pool was cut to the 10 strongest of 11 records: B is one of them,
\* although the record left out scores higher
C26_Witness ==
  /\ ret.op = "select"
  /\ ~ret.first.none
  /\ Len(ret.spores) = 11
  /\ Len(ret.candidates) = 10
  /\ \E i \in DOMAIN ret.spores :
        ScoreWith(ret.first.parent_a, ret.spores[i])
          > ScoreWith(ret.first.parent_a, ret.first.parent_b)

\* C27: update_fitness(offspring_id, current, birth) sets the fitness of
\* the logged event of that offspring to current - birth and changes
\* nothing else: the log keeps its length and every other event stays as
\* it was.  (Hence the same call again changes nothing and a call with
\* other arguments overwrites the value.)
C27_FitnessWrite ==
  [][ ret'.op = "fitness" =>
        /\ Len(events') = Len(events)
        /\ \E target \in DOMAIN events :
              /\ events[target].offspring_id = ret'.spore_id
              /\ events'[target] =
                    [events[target] EXCEPT
                       !.fitness_score = ret'.current_energy - ret'.birth_energy]
              /\ \A j \in DOMAIN events \ {target} : events'[j] = events[j]
    ]_vars

(***************************************************************************)
(* Claims about the energy ceiling and about interleaved calls.            *)
(***************************************************************************)
\* C29: after any serial run of ingest and dream_cycle calls from the empty
\* store, a store that is not empty has a record of energy exactly 1.0; a
\* cycle that has just run leaves in its cluster a record of energy 1.0
\* that no record exceeds (the seed, which had 1.0 before the cycle too).
C29_CeilingHeld ==
  /\ store # <<>> => \E i \in DOMAIN store : store[i].energy = 100
  /\ (ret.op = "dream" /\ ~ret.skipped) =>
        \E i \in DOMAIN store :
          /\ store[i].id \in ret.cluster
          /\ store[i].energy = 100
          /\ \A j \in DOMAIN store : store[j].energy <= store[i].energy

\* after 33 cycles on three records the seed alone is at 1.0, the other
\* two are on the floor
C29_Witness ==
  /\ ret.op = "dream"
  /\ ~ret.skipped
  /\ dream_count >= 33
  /\ Len(store) = 3
  /\ Cardinality({i \in DOMAIN store : store[i].energy = 100}) = 1
  /\ Cardinality({i \in DOMAIN store : store[i].energy = 5}) = 2

\* C30: whatever the interleaving of the store calls of two dream cycles and
\* an ingest, every stored energy stays within [0.05, 1.0], and a step that
\* writes an energy leaves the synaptic_links of every record as they were.
C30_InterleavedWritesSafe ==
  [][ /\ \A i \in DOMAIN store' :
           store'[i].energy >= EnergyFloor /\ store'[i].energy <= EnergyCeiling
      /\ ret'.op = "energy" =>
           /\ Len(store') = Len(store)
           /\ \A i \in DOMAIN store : store'[i].links = store[i].links ]_vars

\* both cycles are inside their loops; one has just written the energy of a
\* linked record while the other still works from a snapshot read before
\* that record was linked and before the last record was added
C30_Witness ==
  /\ ret.op = "energy"
  /\ \A p \in Dreamers : calls[p].pc = "write"
  /\ store[IndexOf(store, ret.id)].links # <<>>
  /\ \E q \in Dreamers \ {ret.by} :
       /\ Len(calls[q].all_data) < Len(store)
       /\ \E i \in DOMAIN calls[q].all_data :
            calls[q].all_data[i].id = ret.id /\ calls[q].all_data[i].links = <<>>

====
